---- MODULE Spec2Model ----
(***************************************************************************)
(* A model of the AI tutor's core: the streaming adapters of aiService.ts, *)
(* the quiz extraction of AiService.generateQuiz, the flowchart validation *)
(* of flowchartGenerator.ts and the chat handlers of App.tsx.              *)
(*                                                                         *)
(* Text is a sequence of characters (one-character strings).  The bytes of *)
(* a response body are the UTF-8 encoding of its characters: every         *)
(* character is one byte except "E", which stands for a two-byte character *)
(* and is sent as the bytes "E1" "E2".                                     *)
(***************************************************************************)
EXTENDS Integers, Sequences, FiniteSets, TLC

VARIABLES
  settings,     \* AiService.settings
  wire,         \* the lines the vendor answers with (descriptors), fixed per stream
  respStatus,   \* the HTTP outcome of the fetch: "none", "ok", "error", "nobody"
  requests,     \* the fetch calls issued so far, in order
  body,         \* the bytes of the response body the reader has not delivered yet
  pending,      \* TextDecoder state: bytes of an incomplete character
  buffer,       \* the adapter's `buffer`
  lines,        \* the lines of the current `for (const line of lines)` not yet visited
  gpc,          \* position of the generator
  adapter,      \* which parsing loop runs: "none", "gemini", "openai"
  fragments,    \* the fragments yielded so far, in order
  gerr,         \* the error the generator threw: "none", "config", "provider", "transport"
  respCode,     \* response.status (0: no response yet)
  gerrCode,     \* the status code in the message of the provider error (0: none)
  transport,    \* the connection the body arrives on: "up" or "broken"
  \* AiService.generateQuiz
  qpc,          \* position of the call: "idle", "fetching", "done", "failed"
  qrequests,    \* number of fetch calls issued by generateQuiz
  qresp,        \* what the vendor answered: its text and the object the text holds
  qsession,     \* the StudySession returned, or NoSession
  qerr,         \* the error generateQuiz threw
  qconversation,   \* the id of the conversation handleGenerateQuiz found
  studySession,    \* App state: the session shown by the quiz modal, or NoSession
  isQuizModalOpen, \* App state
  isQuizLoading,   \* App state
  \* flowchartGenerator.ts
  conversation, \* the roles of conversation.messages
  fpc,          \* position of the call: "idle", "streaming", "done", "failed"
  fresp,        \* what generateFlowchartResponse produced and the data its text holds
  flowchart,    \* the Flowchart returned, or NoFlowchart
  ferr,         \* the error generateFlowchartFromConversation threw
  \* App.tsx: the chat
  conversations,         \* the stored conversations (id and messages), in list order
  currentConversationId, \* "" stands for null
  activeView,            \* "chat", "note" or "flowchart"
  modeSuggestion,        \* the suggestion of the banner, or NoSuggestion
  acceptTimer,           \* the 100 ms timer of handleAcceptModeSuggestion and its closure
  idsMade,               \* how many conversation ids generateId has made
  isChatLoading,
  streamingMessage,
  abortControllerRef,    \* abortControllerRef.current: the controller and its signal
  ops,                   \* the handler calls in flight
  \* App.tsx and FlowchartCanvas.tsx: the flowchart view
  flowcharts,          \* App state: the stored flowcharts, in list order
  currentFlowchartId,  \* App state
  selectedNodeId,      \* FlowchartCanvas state ("" stands for null)
  editingNodeId        \* FlowchartCanvas state ("" stands for null)

netVars == <<respCode, gerrCode, transport>>

streamVars == <<wire, respStatus, requests, body, pending, buffer,
                lines, gpc, adapter, fragments, gerr, netVars>>

quizCall == <<qpc, qrequests, qresp, qsession, qerr, qconversation, isQuizLoading>>

quizVars == <<quizCall, studySession, isQuizModalOpen>>

flowVars == <<conversation, fpc, fresp, flowchart, ferr>>

chatVars == <<conversations, isChatLoading, streamingMessage, abortControllerRef, ops>>

viewVars == <<currentConversationId, activeView, modeSuggestion, acceptTimer, idsMade>>

appVars == <<chatVars, viewVars>>

canvasVars == <<flowcharts, currentFlowchartId, selectedNodeId, editingNodeId>>

vars == <<settings, streamVars, quizVars, flowVars, appVars, canvasVars>>

notStream == <<quizVars, flowVars, appVars, canvasVars>>
notQuiz == <<streamVars, flowVars, appVars, canvasVars>>
notFlow == <<settings, streamVars, quizVars, appVars, canvasVars>>
notApp == <<streamVars, flowVars, quizCall, flowcharts>>
notCanvas == <<settings, streamVars, quizCall, flowVars, chatVars, acceptTimer, idsMade>>
\* What a change of the selected conversation touches.
selection == <<currentConversationId, activeView, modeSuggestion, studySession,
               isQuizModalOpen>>

(***************************************************************************)
(* Bounds of the model.                                                    *)
(***************************************************************************)
MaxDeltas == 2

(***************************************************************************)
(* Generic helpers.                                                        *)
(***************************************************************************)
Min(a, b) == IF a < b THEN a ELSE b
Max(a, b) == IF a > b THEN a ELSE b

RECURSIVE FlattenFrom(_, _)
FlattenFrom(ss, i) == IF i > Len(ss) THEN <<>> ELSE ss[i] \o FlattenFrom(ss, i + 1)

Flatten(ss) == FlattenFrom(ss, 1)

SeqsUpTo(S, n) == UNION {[1..k -> S] : k \in 0..n}

InsertAt(s, i, x) ==
  [j \in 1..(Len(s) + 1) |-> IF j <= i THEN s[j] ELSE IF j = i + 1 THEN x ELSE s[j - 1]]

(***************************************************************************)
(* The wire: what a vendor sends.                                          *)
(***************************************************************************)
Models == {"google", "zhipu", "mistral-small", "mistral-codestral"}

GoogleUrl == "generativelanguage.googleapis.com:streamGenerateContent"
ZhipuUrl == "open.bigmodel.cn/api/paas/v4/chat/completions"
MistralUrl == "api.mistral.ai/v1/chat/completions"

\* The wire format a vendor endpoint answers in.
VendorFormat(url) == IF url = GoogleUrl THEN "gemini" ELSE "openai"

\* The text standing for the key path down to the delta, per format:
\* {"choices":[{"delta":{"content":   and   {"candidates":[{"content":{"parts":[{"text":
DeltaPath(fmt) == IF fmt = "gemini" THEN "candidates" ELSE "choices"

DeltaChars == {"a", "E"}

\* The text of the k-th delta a vendor sends: consecutive deltas differ, so a
\* dropped, repeated or reordered delta shows in the concatenation.
DeltaText(k) ==
  CASE k % 3 = 1 -> <<"a">>
    [] k % 3 = 2 -> <<"E">>
    [] OTHER     -> <<"a", "E">>

DataPrefix == <<"d", "a", "t", "a", ":", " ">>
DoneMarker == <<"[DONE]">>
Whitespace == {" ", "\r", "\t"}

\* One line of the body, without its newline.
\*   delta:     data: {<path> "<text>" }      a valid JSON delta
\*   empty:     data: {<path> "" }            a valid JSON delta of the empty string
\*   other:     data: {other "a" }            valid JSON of another shape
\*   null:      data: null                    valid JSON, not an object
\*   malformed: data: {<path> "a              JSON cut short
\*   done:      data: [DONE]
\*   comment:   : k                           an SSE comment (heartbeat)
\*   blank:                                   the empty line between SSE events
LineText(d, fmt) ==
  CASE d.kind = "delta"     -> DataPrefix \o <<"{", DeltaPath(fmt), "\"">> \o d.text \o <<"\"", "}">>
    [] d.kind = "empty"     -> DataPrefix \o <<"{", DeltaPath(fmt), "\"", "\"", "}">>
    [] d.kind = "other"     -> DataPrefix \o <<"{", "other", "\"", "a", "\"", "}">>
    [] d.kind = "null"      -> DataPrefix \o <<"null">>
    [] d.kind = "malformed" -> DataPrefix \o <<"{", DeltaPath(fmt), "\"", "a">>
    [] d.kind = "done"      -> DataPrefix \o DoneMarker
    [] d.kind = "comment"   -> <<":", "k">>
    [] d.kind = "blank"     -> <<>>

RECURSIVE BodyText(_, _)
BodyText(w, fmt) ==
  IF w = <<>> THEN <<>>
  ELSE LineText(Head(w), fmt) \o <<"\n">> \o BodyText(Tail(w), fmt)

Utf8Encode(cs) ==
  Flatten([i \in 1..Len(cs) |-> IF cs[i] = "E" THEN <<"E1", "E2">> ELSE <<cs[i]>>])

DeltaLine(t) == [kind |-> "delta", text |-> t]
SpecialKinds == {"empty", "other", "null", "malformed", "done", "comment", "blank"}
SpecialLine(k) == [kind |-> k, text |-> <<>>]

\* The bodies considered: up to MaxDeltas valid delta lines and at most one
\* other line at any position among them.
DeltaWires == {[k \in 1..n |-> DeltaLine(DeltaText(k))] : n \in 0..MaxDeltas}
Wires ==
  DeltaWires \cup
  UNION {{InsertAt(w, i, SpecialLine(k)) : i \in 0..Len(w), k \in SpecialKinds} :
           w \in DeltaWires}

\* What the deltas of the valid delta lines concatenate to, in sending order.
RECURSIVE SentText(_)
SentText(w) ==
  IF w = <<>> THEN <<>>
  ELSE (IF Head(w).kind = "delta" THEN Head(w).text ELSE <<>>) \o SentText(Tail(w))

(***************************************************************************)
(* TextDecoder.decode(value, {stream: true}): bytes to characters, keeping *)
(* the bytes of an incomplete character for the next call.                 *)
(***************************************************************************)
\* Per byte: the character it completes, "?" (U+FFFD) for a byte that fits no
\* character, or nothing yet.
DecodeAt(bs, i) ==
  IF bs[i] = "E1"
  THEN IF i = Len(bs) THEN "wait"
       ELSE IF bs[i + 1] = "E2" THEN "skip" ELSE "?"
  ELSE IF bs[i] = "E2"
       THEN IF i > 1 /\ bs[i - 1] = "E1" THEN "E" ELSE "?"
       ELSE bs[i]

\* decode(value) without {stream: true}: an incomplete character at the end of
\* a read is replaced at once and nothing is kept.
DecodeWithoutStream(pend, value) ==
  LET out == [i \in 1..Len(value) |->
                IF DecodeAt(value, i) = "wait" THEN "?" ELSE DecodeAt(value, i)]
  IN  [chars |-> SelectSeq(out, LAMBDA c : c # "skip"), pending |-> <<>>]

DecodeStream(pend, value) ==
  LET bs == pend \o value
      out == [i \in 1..Len(bs) |-> DecodeAt(bs, i)]
  IN  [chars |-> SelectSeq(out, LAMBDA c : c \notin {"wait", "skip"}),
       pending |-> IF bs # <<>> /\ bs[Len(bs)] = "E1" THEN <<"E1">> ELSE <<>>]

(***************************************************************************)
(* String operations of the parsing loops.                                 *)
(***************************************************************************)
\* s.split('\n'): the pieces between newlines; always at least one piece.
RECURSIVE SplitFrom(_, _, _)
SplitFrom(s, i, start) ==
  IF i > Len(s) THEN <<SubSeq(s, start, Len(s))>>
  ELSE IF s[i] = "\n" THEN <<SubSeq(s, start, i - 1)>> \o SplitFrom(s, i + 1, i + 1)
       ELSE SplitFrom(s, i + 1, start)

\* A split that forgets the unfinished last piece.
SplitLinesNoCarry(s) ==
  LET ps == SplitFrom(s, 1, 1) IN SubSeq(ps, 1, Len(ps) - 1) \o <<<<>>>>

SplitLines(s) == SplitFrom(s, 1, 1)

StartsWith(s, p) == Len(s) >= Len(p) /\ SubSeq(s, 1, Len(p)) = p

Substring(s, n) == SubSeq(s, n + 1, Len(s))

RECURSIVE TrimStart(_)
TrimStart(s) ==
  IF s # <<>> /\ Head(s) \in Whitespace THEN TrimStart(Tail(s)) ELSE s

RECURSIVE TrimEnd(_)
TrimEnd(s) ==
  IF s # <<>> /\ s[Len(s)] \in Whitespace THEN TrimEnd(SubSeq(s, 1, Len(s) - 1)) ELSE s

Trim(s) == TrimEnd(TrimStart(s))

\* JSON.parse on the texts of this model: `null`, or an object holding one
\* string under one key path.  Anything else is a SyntaxError.
JsonKeyPaths == {"choices", "candidates", "other"}

JSONParse(s) ==
  LET t == Trim(s)
      n == Len(t)
  IN  IF t = <<"null">> THEN [ok |-> TRUE, isNull |-> TRUE, path |-> "", text |-> <<>>]
      ELSE IF /\ n >= 5
              /\ t[1] = "{" /\ t[2] \in JsonKeyPaths /\ t[3] = "\""
              /\ t[n - 1] = "\"" /\ t[n] = "}"
              /\ \A i \in 4..(n - 2) : t[i] \in DeltaChars
           THEN [ok |-> TRUE, isNull |-> FALSE, path |-> t[2], text |-> SubSeq(t, 4, n - 2)]
           ELSE [ok |-> FALSE, isNull |-> FALSE, path |-> "", text |-> <<>>]

\* The outcome of the try block for one data payload: the chunk to yield, or
\* nothing (a falsy chunk, or an exception caught and logged).
NoChunk == [yield |-> FALSE, text |-> <<>>]

ChunkAt(data, path) ==
  LET json == JSONParse(data)
  IN  IF ~json.ok THEN NoChunk                       \* SyntaxError, caught
      ELSE IF json.isNull THEN NoChunk               \* TypeError on null, caught
      ELSE IF json.path # path THEN NoChunk          \* undefined
      ELSE IF json.text = <<>> THEN NoChunk          \* '' is falsy
      ELSE [yield |-> TRUE, text |-> json.text]

OpenAIChunk(data) == ChunkAt(data, "choices")

GeminiChunk(data) == ChunkAt(data, "candidates")

(***************************************************************************)
(* The for loop over the lines of one read, run up to its next suspension: *)
(* a yield, the return on [DONE], or the end of the lines.                 *)
(***************************************************************************)
RECURSIVE OpenAILinesIgnoringDone(_)
OpenAILinesIgnoringDone(ls) ==
  IF ls = <<>> THEN [ev |-> "exhausted", text |-> <<>>, rest |-> <<>>]
  ELSE LET line == Head(ls) IN
       IF ~StartsWith(line, DataPrefix) THEN OpenAILinesIgnoringDone(Tail(ls))
       ELSE LET chunk == OpenAIChunk(Substring(line, 6)) IN
            IF chunk.yield THEN [ev |-> "yield", text |-> chunk.text, rest |-> Tail(ls)]
            ELSE OpenAILinesIgnoringDone(Tail(ls))

RECURSIVE OpenAILines(_)
OpenAILines(ls) ==
  IF ls = <<>> THEN [ev |-> "exhausted", text |-> <<>>, rest |-> <<>>]
  ELSE LET line == Head(ls) IN
       IF ~StartsWith(line, DataPrefix) THEN OpenAILines(Tail(ls))
       ELSE LET data == Substring(line, 6) IN
            IF Trim(data) = DoneMarker THEN [ev |-> "return", text |-> <<>>, rest |-> <<>>]
            ELSE LET chunk == OpenAIChunk(data) IN
                 IF chunk.yield THEN [ev |-> "yield", text |-> chunk.text, rest |-> Tail(ls)]
                 ELSE OpenAILines(Tail(ls))

\* A loop without the try/catch: the stream ends at a line JSON.parse rejects.
RECURSIVE GeminiLinesNoCatch(_)
GeminiLinesNoCatch(ls) ==
  IF ls = <<>> THEN [ev |-> "exhausted", text |-> <<>>, rest |-> <<>>]
  ELSE LET line == Head(ls) IN
       IF ~StartsWith(line, DataPrefix) THEN GeminiLinesNoCatch(Tail(ls))
       ELSE IF ~JSONParse(Substring(line, 6)).ok
            THEN [ev |-> "return", text |-> <<>>, rest |-> <<>>]
            ELSE LET chunk == GeminiChunk(Substring(line, 6)) IN
                 IF chunk.yield THEN [ev |-> "yield", text |-> chunk.text, rest |-> Tail(ls)]
                 ELSE GeminiLinesNoCatch(Tail(ls))

RECURSIVE GeminiLines(_)
GeminiLines(ls) ==
  IF ls = <<>> THEN [ev |-> "exhausted", text |-> <<>>, rest |-> <<>>]
  ELSE LET line == Head(ls) IN
       IF ~StartsWith(line, DataPrefix) THEN GeminiLines(Tail(ls))
       ELSE LET chunk == GeminiChunk(Substring(line, 6)) IN
            IF chunk.yield THEN [ev |-> "yield", text |-> chunk.text, rest |-> Tail(ls)]
            ELSE GeminiLines(Tail(ls))

RunLines(ad, ls) == IF ad = "openai" THEN OpenAILines(ls) ELSE GeminiLines(ls)

(***************************************************************************)
(* AiService.generateQuiz.                                                 *)
(***************************************************************************)
MaxQuestions == 2

\* Array.prototype.indexOf: the zero-based index of the first element equal
\* to x, or -1.
IndexOf(xs, x) ==
  IF \E i \in 1..Len(xs) : xs[i] = x
  THEN (CHOOSE i \in 1..Len(xs) : xs[i] = x /\ \A j \in 1..(i - 1) : xs[j] # x) - 1
  ELSE -1

\* The option lists and answers a model may give.
OptionLists ==
  {SubSeq(<<"A", "B", "C", "D">>, 1, n) : n \in 0..4}
    \cup {<<"D", "C", "B", "A">>, <<"A", "C", "C", "A">>}
Answers == {"A", "B", "C", "D", "E"}

\* A parsed question: its options (absent when hasOptions is FALSE) and answer.
RawQuestions ==
  [hasOptions : {TRUE}, options : OptionLists, answer : Answers]
    \cup [hasOptions : {FALSE}, options : {<<>>}, answer : {"A"}]

\* A parsed object: with a `questions` array, or without one.
RawQuizzes ==
  [hasQuestions : {TRUE}, questions : SeqsUpTo(RawQuestions, MaxQuestions)]
    \cup [hasQuestions : {FALSE}, questions : {<<>>}]

\* The text of a response, as tokens: "JSON" stands for the JSON text of the
\* object, the fences are Markdown code-fence markers, "prose" is other text.
ParsableTexts == {<<"JSON">>, <<"~~~json", "JSON", "~~~", " ">>}
UnparsableTexts == {<<"prose">>, <<"prose", " ", "JSON">>, <<"~~~json", "~~~">>}

NoObject == [hasQuestions |-> FALSE, questions |-> <<>>]
NoResponse == [ok |-> FALSE, hasText |-> FALSE, text |-> <<>>, obj |-> NoObject]
QuizResponses ==
  {[ok |-> FALSE, hasText |-> FALSE, text |-> <<>>, obj |-> NoObject],
   [ok |-> TRUE, hasText |-> FALSE, text |-> <<>>, obj |-> NoObject]}
    \cup [ok : {TRUE}, hasText : {TRUE}, text : UnparsableTexts, obj : {NoObject}]
    \cup [ok : {TRUE}, hasText : {TRUE}, text : ParsableTexts, obj : RawQuizzes]

NoSession == [present |-> FALSE, questions |-> <<>>, conversationId |-> ""]

\* return {id: generateId(), conversationId: conversation.id, questions, ...}
SessionOf(extracted, conversationId) ==
  [present |-> extracted.present, questions |-> extracted.questions,
   conversationId |-> conversationId]

\* textResponse.replace(/~~~json/g, '').replace(/~~~/g, '').trim()
CleanQuizText(text) == Trim(SelectSeq(text, LAMBDA t : t \notin {"~~~json", "~~~"}))

\* The callback of parsed.questions.map.
MapQuestion(q) ==
  [options |-> q.options, correctAnswer |-> IndexOf(q.options, q.answer)]

ExtractQuizWithFallback(resp) ==
  LET clean == CleanQuizText(resp.text) IN
    IF clean = <<"JSON">> /\ resp.obj.hasQuestions
         /\ \A i \in 1..Len(resp.obj.questions) : resp.obj.questions[i].hasOptions
    THEN [ok |-> TRUE,
          session |-> [present |-> TRUE,
                       questions |-> [i \in 1..Len(resp.obj.questions) |->
                                        MapQuestion(resp.obj.questions[i])]]]
    ELSE [ok |-> TRUE, session |-> [present |-> TRUE, questions |-> <<>>]]

\* The try block: the session, or the error of the catch.
ExtractQuiz(resp) ==
  LET clean == CleanQuizText(resp.text) IN
    IF clean # <<"JSON">> THEN [ok |-> FALSE, session |-> NoSession]   \* SyntaxError
    ELSE IF ~resp.obj.hasQuestions THEN [ok |-> FALSE, session |-> NoSession]
    ELSE IF \E i \in 1..Len(resp.obj.questions) : ~resp.obj.questions[i].hasOptions
         THEN [ok |-> FALSE, session |-> NoSession]                     \* TypeError
    ELSE [ok |-> TRUE,
          session |-> [present |-> TRUE,
                       questions |-> [i \in 1..Len(resp.obj.questions) |->
                                        MapQuestion(resp.obj.questions[i])]]]

\* handleGenerateQuiz on the selected conversation (it returns at once when
\* there is none): setIsQuizLoading(true) and generateQuiz up to its fetch; a
\* missing key throws at once, and the catch and finally blocks of the
\* handler run.
QuizStart ==
  /\ qpc = "idle"
  /\ \E i \in 1..Len(conversations) : conversations[i].id = currentConversationId
  /\ qconversation' = currentConversationId
  /\ IF settings.googleApiKey = ""
     THEN /\ qpc' = "failed"
          /\ qerr' = "config"
          /\ isQuizLoading' = FALSE
          /\ UNCHANGED qrequests
     ELSE /\ qpc' = "fetching"
          /\ qrequests' = qrequests + 1
          /\ isQuizLoading' = TRUE
          /\ UNCHANGED qerr
  /\ UNCHANGED <<settings, qresp, qsession, studySession, isQuizModalOpen>>
  /\ UNCHANGED notQuiz

\* The response arrives: the rest of generateQuiz, and of handleGenerateQuiz
\* (setStudySession and setIsQuizModalOpen on success; the finally block).
QuizResponse ==
  /\ qpc = "fetching"
  /\ \E resp \in QuizResponses :
       /\ qresp' = resp
       /\ IF ~resp.ok THEN
            /\ qpc' = "failed" /\ qerr' = "api"
            /\ UNCHANGED <<qsession, studySession, isQuizModalOpen>>
          ELSE IF ~resp.hasText THEN
            /\ qpc' = "failed" /\ qerr' = "invalid"
            /\ UNCHANGED <<qsession, studySession, isQuizModalOpen>>
          ELSE LET r == ExtractQuiz(resp) IN
            IF r.ok
            THEN /\ qpc' = "done" /\ UNCHANGED qerr
                 /\ qsession' = SessionOf(r.session, qconversation)
                 /\ studySession' = SessionOf(r.session, qconversation)
                 /\ isQuizModalOpen' = TRUE
            ELSE /\ qpc' = "failed" /\ qerr' = "extract"
                 /\ UNCHANGED <<qsession, studySession, isQuizModalOpen>>
  /\ isQuizLoading' = FALSE
  /\ UNCHANGED <<settings, qrequests, qconversation>>
  /\ UNCHANGED notQuiz

(***************************************************************************)
(* Flowchart generation: flowchartGenerator.ts.  A node is its id, type    *)
(* and position; an edge is its source and target.  An id of "" stands for *)
(* a missing (falsy) id.  Labels, titles and dates are left out.           *)
(***************************************************************************)
MaxNodes == 2
MaxEdges == 2
MaxMessages == 9

\* generateId(): a fresh identifier; the n-th one made for the nodes of a
\* graph, or for the conversations of the App.
GenerateId(n) == "g" \o ToString(n)

ValidTypes == {"start", "process", "decision", "end", "topic", "concept"}

\* if (!hasStart && data.nodes.length > 0) data.nodes[0].type = 'start'
EnsureStart(ns) ==
  IF \E i \in 1..Len(ns) : ns[i].type = "start"
  THEN ns
  ELSE [ns EXCEPT ![1].type = "start"]

\* if (!hasEnd && data.nodes.length > 0) data.nodes[data.nodes.length - 1].type = 'end'
EnsureEnd(ns) ==
  IF \E i \in 1..Len(ns) : ns[i].type = "end"
  THEN ns
  ELSE [ns EXCEPT ![Len(ns)].type = "end"]

ClampX(x) == Max(100, Min(800, x))

ClampYTo700(y) == Max(50, Min(700, y))

ClampY(y) == Max(50, Min(800, y))

\* The callback of data.nodes.map; index is zero-based.
FixNode(node, index) ==
  [id   |-> IF node.id # "" THEN node.id ELSE GenerateId(index + 1),
   type |-> IF node.type \in ValidTypes THEN node.type ELSE "concept",
   x    |-> ClampX(IF node.hasX THEN node.x ELSE 450),
   y    |-> ClampY(IF node.hasY THEN node.y ELSE 80 + index * 140)]

FixNodes(ns) == [i \in 1..Len(ns) |-> FixNode(ns[i], i - 1)]

\* One step of a stable sort by y: n goes after every node whose y is not larger.
InsertByY(sorted, n) ==
  InsertAt(sorted, Cardinality({i \in 1..Len(sorted) : sorted[i].y <= n.y}), n)

RECURSIVE SortUpTo(_, _)
SortUpTo(ns, k) == IF k = 0 THEN <<>> ELSE InsertByY(SortUpTo(ns, k - 1), ns[k])

SortKeepsArrayOrder(ns) == ns

\* [...nodes].sort((a, b) => a.position.y - b.position.y)
SortByY(ns) == SortUpTo(ns, Len(ns))

NodeIds(ns) == {ns[i].id : i \in 1..Len(ns)}

\* nodeYMap.get(id) || 0: a Map built from pairs keeps the last pair of a key.
NodeY(ns, id) ==
  LET at == {i \in 1..Len(ns) : ns[i].id = id} IN
    IF at = {} THEN 0
    ELSE ns[CHOOSE i \in at : \A j \in at : j <= i].y

KeepEdgeAnyDirection(e, ns) ==
  /\ e.source # ""
  /\ e.target # ""
  /\ e.source \in NodeIds(ns)
  /\ e.target \in NodeIds(ns)
  /\ e.source # e.target

\* The predicate of data.edges.filter.
KeepEdge(e, ns) ==
  /\ e.source # ""
  /\ e.target # ""
  /\ e.source \in NodeIds(ns)
  /\ e.target \in NodeIds(ns)
  /\ e.source # e.target
  /\ NodeY(ns, e.target) >= NodeY(ns, e.source)

\* The loop that links sortedNodes[i] to sortedNodes[i + 1].
ChainEdges(sorted) ==
  [i \in 1..(Len(sorted) - 1) |-> [source |-> sorted[i].id, target |-> sorted[i + 1].id]]

NoFlowchart == [via |-> "none", nodes |-> <<>>, edges |-> <<>>]

\* The nodes createFallbackFlowchart pushes: the start node, one node for each
\* of conversation.messages.slice(0, 8), the end node.  conv is the roles of
\* the messages.
FallbackNodes(conv) ==
  LET n == Min(8, Len(conv))
      startNode == [id |-> GenerateId(1), type |-> "start", x |-> 450, y |-> 80]
      msgNode(i) == [id   |-> GenerateId(i + 2),
                     type |-> IF conv[i + 1] = "user" THEN "topic" ELSE "concept",
                     x    |-> 450 + (IF i % 2 = 0 THEN -150 ELSE 150),
                     y    |-> 220 + 140 * i]
      endNode == [id |-> GenerateId(n + 2), type |-> "end", x |-> 450,
                  y |-> (220 + 140 * n) + 50]
  IN <<startNode>> \o [i \in 1..n |-> msgNode(i - 1)] \o <<endNode>>

\* A fallback that never advances prevId: every edge leaves the start node.
createFallbackFlowchartFromStart(conv) ==
  LET nodes == FallbackNodes(conv)
  IN [via |-> "fallback", nodes |-> nodes,
      edges |-> [i \in 1..(Len(nodes) - 1) |->
                   [source |-> nodes[1].id, target |-> nodes[i + 1].id]]]

\* createFallbackFlowchart(conversation, analyzed): each pushed node is linked
\* from prevId, the node pushed before it.
createFallbackFlowchart(conv) ==
  LET nodes == FallbackNodes(conv)
  IN [via |-> "fallback", nodes |-> nodes, edges |-> ChainEdges(nodes)]

\* validateAndFixFlowchart(data, conversation)
validateAndFixFlowchart(data, conv) ==
  IF ~data.hasNodes \/ Len(data.nodes) = 0
  THEN createFallbackFlowchart(conv)
  ELSE
    LET rawEdges == IF data.hasEdges THEN data.edges ELSE <<>>
        nodes == FixNodes(EnsureEnd(EnsureStart(data.nodes)))
        sortedNodes == SortByY(nodes)
        kept == SelectSeq(rawEdges, LAMBDA e : KeepEdge(e, nodes))
        edges == IF Len(kept) = 0 /\ Len(nodes) > 1 THEN ChainEdges(sortedNodes) ELSE kept
    IN [via |-> "validated", nodes |-> nodes,
        edges |-> [i \in 1..Len(edges) |-> [source |-> edges[i].source,
                                            target |-> edges[i].target]]]

\* What the model's answer can hold as data.nodes[i] and data.edges[i].
RawNode(id, type, p) ==
  [id |-> id, type |-> type, hasX |-> p.hasX, x |-> p.x, hasY |-> p.hasY, y |-> p.y]

At(x, y) == [hasX |-> TRUE, x |-> x, hasY |-> TRUE, y |-> y]
NoPosition == [hasX |-> FALSE, x |-> 0, hasY |-> FALSE, y |-> 0]
OnlyX(x) == [hasX |-> TRUE, x |-> x, hasY |-> FALSE, y |-> 0]

RawGraph(ns, es) == [hasNodes |-> TRUE, nodes |-> ns, hasEdges |-> TRUE, edges |-> es]
NoNodesGraph == [hasNodes |-> FALSE, nodes |-> <<>>, hasEdges |-> FALSE, edges |-> <<>>]

\* Graphs that vary ids (repeated, missing) and edges (dangling, self-loops,
\* backward, missing endpoint).
StructNodes == {RawNode(id, "topic", p) : id \in {"a", "b", ""}, p \in {NoPosition, At(450, 300)}}
RawEdges ==
  {[source |-> s, target |-> t] : s \in {"a", "b", "z"}, t \in {"a", "b", "z"}}
    \cup {[source |-> "a", target |-> ""]}
StructGraphs ==
  {RawGraph(ns, es) : ns \in SeqsUpTo(StructNodes, MaxNodes), es \in SeqsUpTo(RawEdges, MaxEdges)}
    \cup {[RawGraph(ns, <<>>) EXCEPT !.hasEdges = FALSE] : ns \in SeqsUpTo(StructNodes, MaxNodes)}

\* Graphs that vary types and positions, with distinct ids and no edges.
AttrTypes == {"start", "end", "topic", "bogus"}
AttrPositions == {NoPosition, At(-500, 10000), At(450, 300), At(900, 10), OnlyX(120)}
AttrNodes(i) == {RawNode("n" \o ToString(i), t, p) : t \in AttrTypes, p \in AttrPositions}
AttrGraphs ==
  {RawGraph(ns, <<>>) :
     ns \in UNION {{f \in [1..n -> UNION {AttrNodes(i) : i \in 1..n}] :
                      \A i \in 1..n : f[i] \in AttrNodes(i)} : n \in 1..MaxNodes}}

RawGraphs == StructGraphs \cup AttrGraphs \cup {NoNodesGraph}

\* The conversation as the roles of its messages.
Roles == {"user", "assistant"}
Conversations == SeqsUpTo(Roles, MaxMessages)

\* The text generateFlowchartResponse streams, in tokens: "JSON" is the text of
\* one object (from its "{" to its "}"), "prose" is text without braces.
FlowParsableTexts ==
  {<<"JSON">>, <<"~~~json", "JSON", "~~~">>, <<"prose", "JSON", "prose">>, <<" ", "JSON", " ">>}
FlowUnparsableTexts == {<<>>, <<"prose">>, <<"JSON", "JSON">>}
\* "null" is the text of the JSON value null: it parses, and validation then
\* throws a TypeError at data.nodes.
FlowNullTexts == {<<"null">>, <<"~~~json", "null", "~~~">>}

\* The graphs the pipeline is run on.
FlowSampleGraphs ==
  {NoNodesGraph,
   RawGraph(<<>>, <<>>),
   RawGraph(<<RawNode("a", "topic", At(-500, 10000))>>, <<>>),
   RawGraph(<<RawNode("a", "start", NoPosition), RawNode("b", "end", NoPosition)>>,
            <<[source |-> "a", target |-> "b"]>>)}

NoFlowResponse == [threw |-> FALSE, text |-> <<>>, data |-> NoNodesGraph]
FlowResponses ==
  {[NoFlowResponse EXCEPT !.threw = TRUE]}
    \cup {[threw |-> FALSE, text |-> t, data |-> d] : t \in FlowParsableTexts, d \in FlowSampleGraphs}
    \cup {[threw |-> FALSE, text |-> t, data |-> NoNodesGraph] :
             t \in FlowUnparsableTexts \cup FlowNullTexts}

\* trim, removal of the code fences, and the cut from the first "{" to the last "}".
CleanFlowText(text) ==
  LET t == SelectSeq(Trim(text), LAMBDA k : k \notin {"~~~json", "~~~"})
      at == {i \in 1..Len(t) : t[i] = "JSON"}
  IN IF at = {} THEN t
     ELSE SubSeq(t, CHOOSE i \in at : \A j \in at : i <= j,
                    CHOOSE i \in at : \A j \in at : j <= i)

\* JSON.parse(cleanText) returns an object.
FlowParses(text) == CleanFlowText(text) = <<"JSON">>

\* JSON.parse(cleanText) returns null.
FlowParsesToNull(text) == CleanFlowText(text) = <<"null">>

FlowchartOfNoCatch(resp, conv) ==
  IF resp.threw THEN NoFlowchart
  ELSE IF FlowParses(resp.text) THEN validateAndFixFlowchart(resp.data, conv)
  ELSE NoFlowchart

\* The try block of generateFlowchartFromConversation and its catch: the
\* stream throwing, JSON.parse throwing and validation throwing on null all
\* land in the catch.
FlowchartOf(resp, conv) ==
  IF resp.threw THEN createFallbackFlowchart(conv)
  ELSE IF FlowParses(resp.text) THEN validateAndFixFlowchart(resp.data, conv)
  ELSE IF FlowParsesToNull(resp.text) THEN createFallbackFlowchart(conv)
  ELSE createFallbackFlowchart(conv)

\* A direct call validateAndFixFlowchart(data, conversation).
ValidateCall ==
  /\ fpc = "idle"
  /\ \E data \in RawGraphs :
       /\ fresp' = [threw |-> FALSE, text |-> <<"JSON">>, data |-> data]
       /\ flowchart' = validateAndFixFlowchart(data, conversation)
  /\ fpc' = "done"
  /\ UNCHANGED <<conversation, ferr>>
  /\ UNCHANGED notFlow

\* generateFlowchartFromConversation up to the request.
FlowStart ==
  /\ fpc = "idle"
  /\ IF Len(conversation) < 2
     THEN fpc' = "failed" /\ ferr' = "short"
     ELSE fpc' = "streaming" /\ UNCHANGED ferr
  /\ UNCHANGED <<conversation, fresp, flowchart>>
  /\ UNCHANGED notFlow

\* The stream of generateFlowchartResponse ends or throws: the rest of the call.
FlowResponse ==
  /\ fpc = "streaming"
  /\ \E resp \in FlowResponses :
       /\ fresp' = resp
       /\ flowchart' = FlowchartOf(resp, conversation)
  /\ fpc' = "done"
  /\ UNCHANGED <<conversation, ferr>>
  /\ UNCHANGED notFlow

\* No flowchart asked for yet.
FlowIdle ==
  /\ fpc = "idle"
  /\ fresp = NoFlowResponse
  /\ flowchart = NoFlowchart
  /\ ferr = "none"

(***************************************************************************)
(* The chat of App.tsx.  A conversation is its id and its messages; a      *)
(* message is its role, its content and whether it is the error text.      *)
(* Each of the two streaming handlers has at most one call in flight (a    *)
(* send can run together with a regenerate, not with a second send): the   *)
(* call's position, the conversation it writes to, the content or history  *)
(* it captured and its local fullResponse.  Chunk i of a stream is the     *)
(* number i.                                                               *)
(* stoppedAt records how many chunks the operation had accepted when       *)
(* handleStopGenerating aborted a controller (-1: not so far).             *)
(* The effect on [currentConversationId] runs right after the render that  *)
(* follows a handler, so it is part of the handler's step.                 *)
(***************************************************************************)
MaxFragments == 2
MaxChatMessages == 3
MaxConversations == 3

Ops == {"send", "regenerate"}

UserMessage == [role |-> "user", content |-> <<>>, error |-> FALSE]
AssistantMessage(text) == [role |-> "assistant", content |-> text, error |-> FALSE]
ErrorMessage == [role |-> "assistant", content |-> <<>>, error |-> TRUE]

NoMessage == [present |-> FALSE, content |-> <<>>]
NullRef == [set |-> FALSE, aborted |-> FALSE, owner |-> "none"]
NewAbortController(o) == [set |-> TRUE, aborted |-> FALSE, owner |-> o]

NoOp == [pc |-> "idle", conv |-> "", content |-> "", history |-> <<>>,
         fullResponse |-> <<>>, stoppedAt |-> -1]

NoSuggestion == [present |-> FALSE, mode |-> "", show |-> FALSE]
NoTimer == [set |-> FALSE, conv |-> "", messages |-> <<>>]

\* const hasApiKey = !!(settings.googleApiKey || settings.zhipuApiKey || settings.mistralApiKey)
hasApiKey ==
  settings.googleApiKey # "" \/ settings.zhipuApiKey # "" \/ settings.mistralApiKey # ""

\* conversations.find(c => c.id === id): whether there is one, and which.
HasConversation(convs, id) == \E i \in 1..Len(convs) : convs[i].id = id

FindConversation(convs, id) ==
  convs[CHOOSE i \in 1..Len(convs) :
          convs[i].id = id /\ \A j \in 1..(i - 1) : convs[j].id # id]

\* prev.map(conv => conv.id === id ? {...conv, messages: F(conv.messages)} : conv)
MapMessages(prev, id, F(_)) ==
  [i \in 1..Len(prev) |->
     IF prev[i].id = id THEN [prev[i] EXCEPT !.messages = F(prev[i].messages)]
     ELSE prev[i]]

\* The first messages the user can type.
Contents == {"exam tomorrow", "a test?", "hello"}

\* detectBestMode(content): the suggested persona and whether its confidence
\* is above the suppression threshold.
detectBestMode(content) ==
  CASE content = "exam tomorrow" -> [suggestedMode |-> "exam", confident |-> TRUE]
    [] content = "a test?"       -> [suggestedMode |-> "exam", confident |-> FALSE]
    [] OTHER                     -> [suggestedMode |-> "standard", confident |-> FALSE]

\* shouldSuggestMode(detection, currentMode): not the active persona, and
\* confident enough.
shouldSuggestMode(detection, currentMode) ==
  detection.suggestedMode # currentMode /\ detection.confident

\* abortControllerRef.current?.signal.aborted
RefAborted == abortControllerRef.set /\ abortControllerRef.aborted

\* The finally block of both handlers.
Finally ==
  /\ streamingMessage' = NoMessage
  /\ isChatLoading' = FALSE
  /\ abortControllerRef' = NullRef

\* The effect on [currentConversationId], run when the render after the
\* handler has another conversation id; sugg is what the handler set.
ConversationEffect(newId, sugg) ==
  IF newId # currentConversationId
  THEN /\ isQuizModalOpen' = FALSE
       /\ studySession' = NoSession
       /\ modeSuggestion' = NoSuggestion
  ELSE /\ modeSuggestion' = sugg
       /\ UNCHANGED <<isQuizModalOpen, studySession>>

\* Leaving the flowchart view unmounts the canvas.
CloseFlowchartView ==
  /\ currentFlowchartId' = ""
  /\ selectedNodeId' = ""
  /\ editingNodeId' = ""

\* handleSelectConversation(id), and the effect; sugg as above.
SelectConversation(id, sugg) ==
  /\ activeView' = "chat"
  /\ currentConversationId' = id
  /\ CloseFlowchartView
  /\ ConversationEffect(id, sugg)

\* handleSelectConversation(id) from the sidebar.
handleSelectConversation(id) ==
  /\ HasConversation(conversations, id)
  /\ SelectConversation(id, modeSuggestion)
  /\ UNCHANGED <<settings, chatVars, acceptTimer, idsMade>>
  /\ UNCHANGED notApp

\* handleSelectNote(id): the chat is left for a note.
handleSelectNote ==
  /\ activeView' = "note"
  /\ currentConversationId' = ""
  /\ CloseFlowchartView
  /\ ConversationEffect("", modeSuggestion)
  /\ UNCHANGED <<settings, chatVars, acceptTimer, idsMade>>
  /\ UNCHANGED notApp

\* handleNewConversation
handleNewConversation ==
  /\ idsMade < MaxConversations
  /\ LET id == GenerateId(idsMade + 1) IN
       /\ conversations' = <<[id |-> id, messages |-> <<>>]>> \o conversations
       /\ SelectConversation(id, modeSuggestion)
  /\ idsMade' = idsMade + 1
  /\ UNCHANGED <<settings, isChatLoading, streamingMessage, abortControllerRef, ops,
                 acceptTimer>>
  /\ UNCHANGED notApp

\* handleDeleteConversation(id).  sortedConversations orders by pin and date,
\* which are left out: any remaining conversation can be its first.
handleDeleteConversation(id) ==
  /\ HasConversation(conversations, id)
  /\ LET remaining == SelectSeq(conversations, LAMBDA c : c.id # id) IN
       /\ conversations' = remaining
       /\ IF currentConversationId = id
          THEN \E newId \in (IF Len(remaining) > 0
                             THEN {remaining[i].id : i \in 1..Len(remaining)}
                             ELSE {""}) :
                 /\ currentConversationId' = newId
                 /\ activeView' = IF newId = "" THEN "chat" ELSE activeView
                 /\ ConversationEffect(newId, modeSuggestion)
          ELSE UNCHANGED selection
  /\ UNCHANGED <<settings, isChatLoading, streamingMessage, abortControllerRef, ops,
                 acceptTimer, idsMade, currentFlowchartId, selectedNodeId, editingNodeId>>
  /\ UNCHANGED notApp

\* The body of handleSendMessage(content) up to its first await; suggest is
\* the outcome of its test on the detection.
SendMessage(content, suggest) ==
  /\ ops["send"].pc # "streaming"
  /\ hasApiKey
  /\ LET detection == detectBestMode(content)
         suggested == IF suggest
                      THEN [present |-> TRUE, mode |-> detection.suggestedMode,
                            show |-> TRUE]
                      ELSE modeSuggestion
     IN IF activeView # "chat" \/ ~HasConversation(conversations, currentConversationId)
        THEN /\ idsMade < MaxConversations
             /\ LET id == GenerateId(idsMade + 1) IN
                  /\ conversations' =
                       <<[id |-> id, messages |-> <<UserMessage>>]>> \o conversations
                  /\ SelectConversation(id, suggested)
                  /\ ops' = [ops EXCEPT !["send"] =
                                    [NoOp EXCEPT !.pc = "streaming", !.conv = id,
                                                 !.content = content]]
             /\ idsMade' = idsMade + 1
        ELSE LET existing == FindConversation(conversations, currentConversationId) IN
             /\ Len(existing.messages) < MaxChatMessages
             /\ modeSuggestion' = IF Len(existing.messages) = 0 THEN suggested
                                  ELSE modeSuggestion
             /\ conversations' = MapMessages(conversations, existing.id,
                                    LAMBDA ms : Append(existing.messages, UserMessage))
             /\ ops' = [ops EXCEPT !["send"] =
                               [NoOp EXCEPT !.pc = "streaming", !.conv = existing.id,
                                            !.content = content]]
             /\ UNCHANGED <<idsMade, activeView, currentConversationId, currentFlowchartId,
                            selectedNodeId, editingNodeId, isQuizModalOpen, studySession>>
  /\ isChatLoading' = TRUE
  /\ abortControllerRef' = NewAbortController("send")
  /\ streamingMessage' = [present |-> TRUE, content |-> <<>>]
  /\ UNCHANGED <<settings, acceptTimer>>
  /\ UNCHANGED notApp

\* A send that shows the banner for every confident detection.
handleSendMessageNotAskingMode(content) ==
  SendMessage(content, detectBestMode(content).confident)

\* handleSendMessage(content): if (shouldSuggestMode(detection, settings.selectedTutorMode))
handleSendMessage(content) ==
  SendMessage(content, shouldSuggestMode(detectBestMode(content), settings.selectedTutorMode))

\* Whether handleRegenerateResponse goes past its early returns, for the
\* message at position index of msgs, and the history it slices.
CanRegenerate(msgs, index) ==
  /\ index \in 1..Len(msgs)
  /\ msgs[index].role = "assistant"
  /\ index > 1
  /\ msgs[index - 1].role = "user"

\* The body of handleRegenerateResponse up to its first await, in a render
\* whose current conversation has the id conv and the messages msgs.
StartRegenerate(conv, msgs, index) ==
  LET history == SubSeq(msgs, 1, index - 1) IN
    /\ conversations' = MapMessages(conversations, conv, LAMBDA ms : history)
    /\ ops' = [ops EXCEPT !["regenerate"] =
                 [NoOp EXCEPT !.pc = "streaming", !.conv = conv, !.history = history]]
    /\ isChatLoading' = TRUE
    /\ abortControllerRef' = NewAbortController("regenerate")
    /\ streamingMessage' = [present |-> TRUE, content |-> <<>>]

\* A regenerate that only asks for an assistant message, not for the user
\* message before it.
handleRegenerateResponseAnyAssistant(index) ==
  /\ ops["regenerate"].pc # "streaming"
  /\ HasConversation(conversations, currentConversationId)
  /\ LET msgs == FindConversation(conversations, currentConversationId).messages IN
       /\ index \in 1..Len(msgs)
       /\ msgs[index].role = "assistant"
       /\ StartRegenerate(currentConversationId, msgs, index)
  /\ UNCHANGED <<settings, viewVars, studySession, isQuizModalOpen, currentFlowchartId,
                 selectedNodeId, editingNodeId>>
  /\ UNCHANGED notApp

\* handleRegenerateResponse(messageId) up to its first await; index is the
\* position of the message with that id in the current conversation.  The
\* early returns change nothing.
handleRegenerateResponse(index) ==
  /\ ops["regenerate"].pc # "streaming"
  /\ HasConversation(conversations, currentConversationId)
  /\ LET msgs == FindConversation(conversations, currentConversationId).messages IN
       /\ CanRegenerate(msgs, index)
       /\ StartRegenerate(currentConversationId, msgs, index)
  /\ UNCHANGED <<settings, viewVars, studySession, isQuizModalOpen, currentFlowchartId,
                 selectedNodeId, editingNodeId>>
  /\ UNCHANGED notApp

\* A commit that puts the conversation back when the list no longer has it.
CommitRestoring(o, msg) ==
  LET stored == IF o = "send" THEN <<UserMessage, msg>> ELSE Append(ops[o].history, msg) IN
    conversations' =
      IF HasConversation(conversations, ops[o].conv)
      THEN MapMessages(conversations, ops[o].conv,
              LAMBDA ms : IF o = "send" THEN Append(ms, msg) ELSE stored)
      ELSE <<[id |-> ops[o].conv, messages |-> stored]>> \o conversations

\* The setConversations call that stores the finished (or the error) message:
\* prev.map over the id the call captured.
Commit(o, msg) ==
  conversations' = MapMessages(conversations, ops[o].conv,
                      LAMBDA ms : IF o = "send" THEN Append(ms, msg)
                                  ELSE Append(ops[o].history, msg))

\* One turn of the for await loop: the generator yields its next chunk.
OpChunk(o) ==
  /\ ops[o].pc = "streaming"
  /\ Len(ops[o].fullResponse) < MaxFragments
  /\ LET chunk == Len(ops[o].fullResponse) + 1 IN
       IF RefAborted
       THEN /\ Commit(o, AssistantMessage(ops[o].fullResponse))
            /\ Finally
            /\ ops' = [ops EXCEPT ![o] = NoOp]
       ELSE LET full == Append(ops[o].fullResponse, chunk) IN
            /\ ops' = [ops EXCEPT ![o].fullResponse = full]
            /\ streamingMessage' = IF streamingMessage.present
                                   THEN [streamingMessage EXCEPT !.content = full]
                                   ELSE NoMessage
            /\ UNCHANGED <<conversations, isChatLoading, abortControllerRef>>
  /\ UNCHANGED <<settings, viewVars, studySession, isQuizModalOpen, currentFlowchartId,
                 selectedNodeId, editingNodeId>>
  /\ UNCHANGED notApp

\* The generator is exhausted: the loop ends, the message is stored.
OpEnd(o) ==
  /\ ops[o].pc = "streaming"
  /\ Commit(o, AssistantMessage(ops[o].fullResponse))
  /\ Finally
  /\ ops' = [ops EXCEPT ![o] = NoOp]
  /\ UNCHANGED <<settings, viewVars, studySession, isQuizModalOpen, currentFlowchartId,
                 selectedNodeId, editingNodeId>>
  /\ UNCHANGED notApp

\* The generator throws: the catch block.
OpThrow(o) ==
  /\ ops[o].pc = "streaming"
  /\ IF RefAborted THEN UNCHANGED conversations ELSE Commit(o, ErrorMessage)
  /\ Finally
  /\ ops' = [ops EXCEPT ![o] = NoOp]
  /\ UNCHANGED <<settings, viewVars, studySession, isQuizModalOpen, currentFlowchartId,
                 selectedNodeId, editingNodeId>>
  /\ UNCHANGED notApp

handleStopGenerating ==
  /\ abortControllerRef.set
  /\ abortControllerRef' = [abortControllerRef EXCEPT !.aborted = TRUE]
  /\ ops' = [o \in Ops |->
               IF ops[o].pc = "streaming" /\ ops[o].stoppedAt = -1
               THEN [ops[o] EXCEPT !.stoppedAt = Len(ops[o].fullResponse)]
               ELSE ops[o]]
  /\ UNCHANGED <<conversations, isChatLoading, streamingMessage>>
  /\ UNCHANGED <<settings, viewVars, studySession, isQuizModalOpen, currentFlowchartId,
                 selectedNodeId, editingNodeId>>
  /\ UNCHANGED notApp

\* handleAcceptModeSuggestion up to its await: handleTutorModeChange, the
\* banner closed, and the 100 ms timer when the last message of the current
\* conversation is an assistant message.  One timer runs at a time.
handleAcceptModeSuggestion ==
  /\ activeView = "chat"
  /\ modeSuggestion.present
  /\ ~acceptTimer.set
  /\ settings' = [settings EXCEPT !.selectedTutorMode = modeSuggestion.mode]
  /\ modeSuggestion' = NoSuggestion
  /\ acceptTimer' =
       IF HasConversation(conversations, currentConversationId)
       THEN LET msgs == FindConversation(conversations, currentConversationId).messages IN
              IF Len(msgs) > 0 /\ msgs[Len(msgs)].role = "assistant"
              THEN [set |-> TRUE, conv |-> currentConversationId, messages |-> msgs]
              ELSE NoTimer
       ELSE NoTimer
  /\ UNCHANGED <<chatVars, currentConversationId, activeView, idsMade, studySession,
                 isQuizModalOpen, currentFlowchartId, selectedNodeId, editingNodeId>>
  /\ UNCHANGED notApp

\* The timer fires: handleRegenerateResponse(lastMessage.id) of the render
\* handleAcceptModeSuggestion ran in, with the conversations of that render.
AcceptTimerFires ==
  /\ acceptTimer.set
  /\ ops["regenerate"].pc # "streaming"
  /\ acceptTimer' = NoTimer
  /\ IF CanRegenerate(acceptTimer.messages, Len(acceptTimer.messages))
     THEN StartRegenerate(acceptTimer.conv, acceptTimer.messages,
                          Len(acceptTimer.messages))
     ELSE UNCHANGED chatVars
  /\ UNCHANGED <<settings, currentConversationId, activeView, modeSuggestion, idsMade,
                 studySession, isQuizModalOpen, currentFlowchartId, selectedNodeId,
                 editingNodeId>>
  /\ UNCHANGED notApp

\* handleDismissModeSuggestion, from the banner.
handleDismissModeSuggestion ==
  /\ activeView = "chat"
  /\ modeSuggestion.present
  /\ modeSuggestion' = NoSuggestion
  /\ UNCHANGED <<settings, chatVars, currentConversationId, activeView, acceptTimer,
                 idsMade, studySession, isQuizModalOpen, currentFlowchartId,
                 selectedNodeId, editingNodeId>>
  /\ UNCHANGED notApp

\* The chat state with nothing in flight.
AppIdle ==
  /\ isChatLoading = FALSE
  /\ streamingMessage = NoMessage
  /\ abortControllerRef = NullRef
  /\ ops = [o \in Ops |-> NoOp]
  /\ modeSuggestion = NoSuggestion
  /\ acceptTimer = NoTimer

\* No conversation stored or selected.
NoConversations ==
  /\ conversations = <<>>
  /\ currentConversationId = ""
  /\ activeView = "chat"
  /\ idsMade = 0

\* One stored conversation, selected in the chat view.
OneConversation(msgs) ==
  /\ conversations = <<[id |-> GenerateId(1), messages |-> msgs]>>
  /\ currentConversationId = GenerateId(1)
  /\ activeView = "chat"
  /\ idsMade = 1

(***************************************************************************)
(* The flowchart view: FlowchartView renders FlowchartCanvas on the        *)
(* flowchart App selected, and hands every change of the canvas to         *)
(* handleSaveFlowchart.  A stored flowchart is its id, its nodes (id and   *)
(* label) and its edges.                                                    *)
(***************************************************************************)
\* handleSaveFlowchart: the updater given to setFlowcharts, applied to prev.
handleSaveFlowchart(prev, fc) ==
  IF \E i \in 1..Len(prev) : prev[i].id = fc.id
  THEN LET index == CHOOSE i \in 1..Len(prev) :
                      prev[i].id = fc.id /\ \A j \in 1..(i - 1) : prev[j].id # fc.id
       IN [prev EXCEPT ![index] = fc]
  ELSE <<fc>> \o prev

\* flowcharts.find(f => f.id === currentFlowchartId); the guard of every
\* canvas action says it was found.
HasCurrentFlowchart == \E i \in 1..Len(flowcharts) : flowcharts[i].id = currentFlowchartId

currentFlowchart ==
  flowcharts[CHOOSE i \in 1..Len(flowcharts) :
               flowcharts[i].id = currentFlowchartId
               /\ \A j \in 1..(i - 1) : flowcharts[j].id # currentFlowchartId]

\* The prop of FlowchartView: onNodesChange={(nodes) => onSave({...flowchart, nodes})}
onNodesChange(prev, fc, nodes) == handleSaveFlowchart(prev, [fc EXCEPT !.nodes = nodes])

\* The prop of FlowchartView: onEdgesChange={(edges) => onSave({...flowchart, edges})}
onEdgesChange(prev, fc, edges) == handleSaveFlowchart(prev, [fc EXCEPT !.edges = edges])

\* App.handleSelectFlowchart(id), and the effect on [currentConversationId];
\* the canvas, once mounted, keeps its state from one flowchart to the next.
handleSelectFlowchart(id) ==
  /\ \E i \in 1..Len(flowcharts) : flowcharts[i].id = id
  /\ activeView' = "flowchart"
  /\ currentFlowchartId' = id
  /\ currentConversationId' = ""
  /\ ConversationEffect("", modeSuggestion)
  /\ UNCHANGED <<flowcharts, selectedNodeId, editingNodeId>>
  /\ UNCHANGED notCanvas

\* FlowchartCanvas.handleNodeMouseDown(e, nodeId) on a node that is drawn.
handleNodeMouseDown(nodeId) ==
  /\ HasCurrentFlowchart
  /\ \E i \in 1..Len(currentFlowchart.nodes) : currentFlowchart.nodes[i].id = nodeId
  /\ selectedNodeId' = nodeId
  /\ UNCHANGED <<flowcharts, currentFlowchartId, editingNodeId>>
  /\ UNCHANGED <<notCanvas, selection>>

\* FlowchartCanvas.handleNodeDoubleClick(node)
handleNodeDoubleClick(nodeId) ==
  /\ HasCurrentFlowchart
  /\ \E i \in 1..Len(currentFlowchart.nodes) : currentFlowchart.nodes[i].id = nodeId
  /\ editingNodeId' = nodeId
  /\ UNCHANGED <<flowcharts, currentFlowchartId, selectedNodeId>>
  /\ UNCHANGED <<notCanvas, selection>>

\* FlowchartCanvas.handleSaveEdit with the edited label.
handleSaveEdit ==
  /\ HasCurrentFlowchart
  /\ editingNodeId # ""
  /\ LET fc == currentFlowchart
         nodes == [i \in 1..Len(fc.nodes) |->
                     IF fc.nodes[i].id = editingNodeId
                     THEN [fc.nodes[i] EXCEPT !.label = "edited"]
                     ELSE fc.nodes[i]]
     IN flowcharts' = onNodesChange(flowcharts, fc, nodes)
  /\ editingNodeId' = ""
  /\ UNCHANGED <<currentFlowchartId, selectedNodeId>>
  /\ UNCHANGED <<notCanvas, selection>>

\* FlowchartCanvas.handleDeleteNode: onNodesChange, then onEdgesChange, both
\* closed over the flowchart prop of the render the click happened in; the
\* two updaters run in order on the stored list.
handleDeleteNode ==
  /\ HasCurrentFlowchart
  /\ selectedNodeId # ""
  /\ LET fc == currentFlowchart
         nodes == SelectSeq(fc.nodes, LAMBDA n : n.id # selectedNodeId)
         edges == SelectSeq(fc.edges, LAMBDA e : e.source # selectedNodeId
                                                /\ e.target # selectedNodeId)
     IN flowcharts' = onEdgesChange(onNodesChange(flowcharts, fc, nodes), fc, edges)
  /\ selectedNodeId' = ""
  /\ UNCHANGED <<currentFlowchartId, editingNodeId>>
  /\ UNCHANGED <<notCanvas, selection>>

\* App.handleDeleteFlowchart(id); without a current flowchart the canvas is
\* unmounted.
handleDeleteFlowchart(id) ==
  /\ \E i \in 1..Len(flowcharts) : flowcharts[i].id = id
  /\ flowcharts' = SelectSeq(flowcharts, LAMBDA f : f.id # id)
  /\ IF currentFlowchartId = id
     THEN /\ CloseFlowchartView
          /\ activeView' = "chat"
     ELSE UNCHANGED <<currentFlowchartId, selectedNodeId, editingNodeId, activeView>>
  /\ UNCHANGED <<currentConversationId, modeSuggestion, studySession, isQuizModalOpen>>
  /\ UNCHANGED notCanvas

\* No flowchart stored or shown.
CanvasIdle ==
  /\ flowcharts = <<>>
  /\ currentFlowchartId = ""
  /\ selectedNodeId = ""
  /\ editingNodeId = ""

(***************************************************************************)
(* AiService.generateStreamingResponse.                                    *)
(***************************************************************************)
ApiKeys == {"", "K"}

Request(url, key, model) == [url |-> url, key |-> key, model |-> model]

TutorModes == {"standard", "exam", "mentor", "creative"}

\* getSystemPrompt(): the persona prompt, named by its mode.
getSystemPrompt(s) ==
  IF s.selectedTutorMode \in TutorModes THEN s.selectedTutorMode ELSE "standard"

\* The request as sent: the system prompt travels in its body.
WithPrompt(req, prompt) ==
  [url |-> req.url, key |-> req.key, model |-> req.model, prompt |-> prompt]


\* A switch whose codestral case does not check its key.
DispatchCodestralUnchecked(s) ==
  IF s.selectedModel = "mistral-codestral"
  THEN [err |-> FALSE, req |-> Request(MistralUrl, s.mistralApiKey, "codestral-latest")]
  ELSE IF s.selectedModel = "google" /\ s.googleApiKey # ""
       THEN [err |-> FALSE, req |-> Request(GoogleUrl, s.googleApiKey, "gemma-3-27b-it")]
       ELSE [err |-> TRUE, req |-> Request("", "", "")]

\* The switch on settings.selectedModel: the configuration error, or the
\* request the selected case sends.
Dispatch(s) ==
  CASE s.selectedModel = "google" ->
         IF s.googleApiKey = "" THEN [err |-> TRUE, req |-> Request("", "", "")]
         ELSE [err |-> FALSE, req |-> Request(GoogleUrl, s.googleApiKey, "gemma-3-27b-it")]
    [] s.selectedModel = "zhipu" ->
         IF s.zhipuApiKey = "" THEN [err |-> TRUE, req |-> Request("", "", "")]
         ELSE [err |-> FALSE, req |-> Request(ZhipuUrl, s.zhipuApiKey, "glm-4.5-flash")]
    [] s.selectedModel = "mistral-small" ->
         IF s.mistralApiKey = "" THEN [err |-> TRUE, req |-> Request("", "", "")]
         ELSE [err |-> FALSE, req |-> Request(MistralUrl, s.mistralApiKey, "mistral-small-latest")]
    [] s.selectedModel = "mistral-codestral" ->
         IF s.mistralApiKey = "" THEN [err |-> TRUE, req |-> Request("", "", "")]
         ELSE [err |-> FALSE, req |-> Request(MistralUrl, s.mistralApiKey, "codestral-latest")]
    [] OTHER -> [err |-> TRUE, req |-> Request("", "", "")]

LoopFormatFromSettings ==
  IF Dispatch(settings).err THEN "none" ELSE VendorFormat(Dispatch(settings).req.url)

\* The parsing loop that runs is the one of the switch case entered at the
\* first pull.
LoopFormat == adapter

\* The first pull: the generator body runs up to its first await.
GenStart ==
  /\ gpc = "created"
  /\ LET d == Dispatch(settings) IN
       IF d.err
       THEN /\ gpc' = "threw"
            /\ gerr' = "config"
            /\ UNCHANGED <<requests, adapter>>
       ELSE /\ gpc' = "fetching"
            /\ requests' = Append(requests, WithPrompt(d.req, getSystemPrompt(settings)))
            /\ adapter' = VendorFormat(d.req.url)
            /\ UNCHANGED gerr
  /\ UNCHANGED <<settings, wire, respStatus, body, pending, buffer, lines, fragments>>
  /\ UNCHANGED netVars
  /\ UNCHANGED notStream

\* The responses fetch resolves with: success with a body, success without a
\* body, and failures with and without a body.
Responses ==
  {[ok |-> TRUE, status |-> 200, hasBody |-> TRUE],
   [ok |-> TRUE, status |-> 204, hasBody |-> FALSE],
   [ok |-> FALSE, status |-> 500, hasBody |-> TRUE],
   [ok |-> FALSE, status |-> 401, hasBody |-> FALSE]}

RejectsFailuresOnly(resp) == ~resp.ok

\* if (!response.ok || !response.body)
Rejects(resp) == ~resp.ok \/ ~resp.hasBody

\* fetch resolves: `if (!response.ok || !response.body) throw new Error(
\* `API Error: ${response.status} ...`)`, else getReader().
FetchReturn ==
  /\ gpc = "fetching"
  /\ \E resp \in Responses :
       /\ respCode' = resp.status
       /\ respStatus' = IF ~resp.ok THEN "error" ELSE IF ~resp.hasBody THEN "nobody" ELSE "ok"
       /\ IF Rejects(resp)
          THEN /\ gpc' = "threw"
               /\ gerr' = "provider"
               /\ gerrCode' = resp.status
               /\ UNCHANGED <<wire, body>>
          ELSE /\ wire' \in Wires
               /\ gpc' = "reading"
               /\ body' = Utf8Encode(BodyText(wire', VendorFormat(requests[Len(requests)].url)))
               /\ UNCHANGED <<gerr, gerrCode>>
  /\ UNCHANGED <<settings, requests, pending, buffer, lines, adapter, fragments, transport>>
  /\ UNCHANGED notStream

\* The effect of running the for loop from `ls` to its next suspension.
Suspend(r) ==
  CASE r.ev = "yield" ->
         /\ fragments' = Append(fragments, r.text)
         /\ lines' = r.rest
         /\ gpc' = "yielded"
    [] r.ev = "return" ->
         /\ lines' = <<>>
         /\ gpc' = "done"
         /\ UNCHANGED fragments
    [] r.ev = "exhausted" ->
         /\ lines' = <<>>
         /\ gpc' = "reading"
         /\ UNCHANGED fragments

\* reader.read() delivers the next k bytes; decode, split, keep the last
\* piece as the buffer, and run the for loop.
ReadChunk ==
  /\ gpc = "reading"
  /\ transport = "up"
  /\ body # <<>>
  /\ \E k \in 1..Len(body) :
       LET value == SubSeq(body, 1, k)
           dec == DecodeStream(pending, value)
           pieces == SplitLines(buffer \o dec.chars)
       IN  /\ body' = SubSeq(body, k + 1, Len(body))
           /\ pending' = dec.pending
           /\ buffer' = pieces[Len(pieces)]
           /\ Suspend(RunLines(LoopFormat, SubSeq(pieces, 1, Len(pieces) - 1)))
  /\ UNCHANGED <<settings, wire, respStatus, requests, adapter, gerr>>
  /\ UNCHANGED netVars
  /\ UNCHANGED notStream

\* reader.read() reports done: break.
ReadDone ==
  /\ gpc = "reading"
  /\ transport = "up"
  /\ body = <<>>
  /\ gpc' = "done"
  /\ UNCHANGED <<settings, wire, respStatus, requests, body, pending, buffer,
                 lines, adapter, fragments, gerr>>
  /\ UNCHANGED netVars
  /\ UNCHANGED notStream

\* The connection drops while the body is arriving.
TransportBreaks ==
  /\ gpc \in {"reading", "yielded"}
  /\ transport = "up"
  /\ transport' = "broken"
  /\ UNCHANGED <<settings, wire, respStatus, requests, body, pending, buffer,
                 lines, gpc, adapter, fragments, gerr, respCode, gerrCode>>
  /\ UNCHANGED notStream

ReadFailEndsStream ==
  /\ gpc = "reading"
  /\ transport = "broken"
  /\ gpc' = "done"
  /\ UNCHANGED <<settings, wire, respStatus, requests, body, pending, buffer,
                 lines, adapter, fragments, gerr>>
  /\ UNCHANGED netVars
  /\ UNCHANGED notStream

\* reader.read() rejects: the generator throws out of `await reader.read()`.
ReadFail ==
  /\ gpc = "reading"
  /\ transport = "broken"
  /\ gpc' = "threw"
  /\ gerr' = "transport"
  /\ UNCHANGED <<settings, wire, respStatus, requests, body, pending, buffer,
                 lines, adapter, fragments>>
  /\ UNCHANGED netVars
  /\ UNCHANGED notStream

\* The consumer pulls again after a yield: the for loop goes on.
Resume ==
  /\ gpc = "yielded"
  /\ Suspend(RunLines(LoopFormat, lines))
  /\ UNCHANGED <<settings, wire, respStatus, requests, body, pending, buffer,
                 adapter, gerr>>
  /\ UNCHANGED netVars
  /\ UNCHANGED notStream

SettingsSet ==
  {s \in [selectedModel : Models \cup {"unknown"}, selectedTutorMode : {"standard"},
          googleApiKey : ApiKeys, zhipuApiKey : ApiKeys, mistralApiKey : ApiKeys] :
     Cardinality({k \in {"g", "z", "m"} :
        \/ k = "g" /\ s.googleApiKey # ""
        \/ k = "z" /\ s.zhipuApiKey # ""
        \/ k = "m" /\ s.mistralApiKey # ""}) <= 1}

\* A generator object just created by generateStreamingResponse(messages).
StreamCreated ==
  /\ wire = <<>>
  /\ respStatus = "none"
  /\ requests = <<>>
  /\ body = <<>>
  /\ pending = <<>>
  /\ buffer = <<>>
  /\ lines = <<>>
  /\ gpc = "created"
  /\ adapter = "none"
  /\ fragments = <<>>
  /\ gerr = "none"
  /\ respCode = 0
  /\ gerrCode = 0
  /\ transport = "up"

\* No call of generateQuiz yet.
QuizCallIdle ==
  /\ qpc = "idle"
  /\ qrequests = 0
  /\ qresp = NoResponse
  /\ qsession = NoSession
  /\ qerr = "none"
  /\ qconversation = ""
  /\ isQuizLoading = FALSE

\* No quiz was ever generated.
QuizIdle ==
  /\ QuizCallIdle
  /\ studySession = NoSession
  /\ isQuizModalOpen = FALSE

\* The session of an earlier quiz, still held by the App.
EarlierSession ==
  [present |-> TRUE,
   questions |-> <<[options |-> <<"A", "B", "C", "D">>, correctAnswer |-> 0]>>,
   conversationId |-> GenerateId(1)]

StreamInit ==
  /\ settings \in SettingsSet
  /\ StreamCreated
  /\ QuizIdle
  /\ conversation = <<>>
  /\ FlowIdle
  /\ NoConversations
  /\ AppIdle
  /\ CanvasIdle

StreamNext == GenStart \/ FetchReturn \/ ReadChunk \/ ReadDone \/ Resume

SpecStream == StreamInit /\ [][StreamNext]_vars

QuizInit ==
  /\ settings \in {s \in SettingsSet : s.selectedModel = "google"}
  /\ StreamCreated
  /\ QuizCallIdle
  /\ \/ studySession = NoSession /\ isQuizModalOpen = FALSE
     \/ studySession = EarlierSession /\ isQuizModalOpen \in BOOLEAN
  /\ conversation = <<>>
  /\ FlowIdle
  /\ OneConversation(<<UserMessage, AssistantMessage(<<1>>)>>)
  /\ AppIdle
  /\ CanvasIdle

QuizNext == QuizStart \/ QuizResponse

SpecQuiz == QuizInit /\ [][QuizNext]_vars

DefaultSettings ==
  [selectedModel |-> "google", selectedTutorMode |-> "standard",
   googleApiKey |-> "", zhipuApiKey |-> "", mistralApiKey |-> ""]

\* Settings a stream is started with, and settings the user changes to
\* while it runs: another vendor with its key, no key for the first vendor,
\* another persona.
UpdateInits ==
  {[DefaultSettings EXCEPT !.googleApiKey = "K"],
   [DefaultSettings EXCEPT !.selectedModel = "zhipu", !.zhipuApiKey = "K"]}
UpdateTargets ==
  {[DefaultSettings EXCEPT !.selectedModel = "mistral-small", !.mistralApiKey = "K2",
                           !.selectedTutorMode = "exam"]}

\* aiService.updateSettings(newSettings), called by the settings effect of App.
updateSettings ==
  /\ \E s \in UpdateTargets : s # settings /\ settings' = s
  /\ UNCHANGED <<streamVars, quizVars, flowVars, appVars, canvasVars>>

UpdateInit ==
  /\ settings \in UpdateInits
  /\ StreamCreated
  /\ QuizIdle
  /\ conversation = <<>>
  /\ FlowIdle
  /\ NoConversations
  /\ AppIdle
  /\ CanvasIdle

UpdateNext == StreamNext \/ updateSettings

TransportInit ==
  /\ settings \in UpdateInits
  /\ StreamCreated
  /\ QuizIdle
  /\ conversation = <<>>
  /\ FlowIdle
  /\ NoConversations
  /\ AppIdle
  /\ CanvasIdle

TransportNext == StreamNext \/ TransportBreaks \/ ReadFail

SpecTransport == TransportInit /\ [][TransportNext]_vars

SpecUpdate == UpdateInit /\ [][UpdateNext]_vars

ValidateInit ==
  /\ settings = DefaultSettings
  /\ StreamCreated
  /\ QuizIdle
  /\ conversation = <<"user", "assistant">>
  /\ FlowIdle
  /\ NoConversations
  /\ AppIdle
  /\ CanvasIdle

ValidateNext == ValidateCall

SpecValidate == ValidateInit /\ [][ValidateNext]_vars

FlowInit ==
  /\ settings = DefaultSettings
  /\ StreamCreated
  /\ QuizIdle
  /\ conversation \in Conversations
  /\ FlowIdle
  /\ NoConversations
  /\ AppIdle
  /\ CanvasIdle

FlowNext == FlowStart \/ FlowResponse

SpecFlow == FlowInit /\ [][FlowNext]_vars

AppInit ==
  /\ settings \in {DefaultSettings, [DefaultSettings EXCEPT !.googleApiKey = "K"]}
  /\ StreamCreated
  /\ QuizIdle
  /\ conversation = <<>>
  /\ FlowIdle
  /\ \E msgs \in {<<>>, <<UserMessage, AssistantMessage(<<1>>)>>} : OneConversation(msgs)
  /\ AppIdle
  /\ CanvasIdle

AppNext ==
  \/ handleSendMessage("hello")
  \/ \E index \in 1..MaxChatMessages : handleRegenerateResponse(index)
  \/ \E o \in Ops : OpChunk(o)
  \/ \E o \in Ops : OpEnd(o)
  \/ \E o \in Ops : OpThrow(o)
  \/ handleStopGenerating

SpecApp == AppInit /\ [][AppNext]_vars

\* The chat with two stored conversations, the first one selected.
TwoConversations ==
  /\ conversations = <<[id |-> GenerateId(1),
                        messages |-> <<UserMessage, AssistantMessage(<<1>>)>>],
                       [id |-> GenerateId(2), messages |-> <<>>]>>
  /\ currentConversationId = GenerateId(1)
  /\ activeView = "chat"
  /\ idsMade = 2

ConversationIds == {GenerateId(n) : n \in 1..MaxConversations}

\* Streams running while conversations are selected and deleted.
ConvInit ==
  /\ settings = [DefaultSettings EXCEPT !.googleApiKey = "K"]
  /\ StreamCreated
  /\ QuizIdle
  /\ conversation = <<>>
  /\ FlowIdle
  /\ TwoConversations
  /\ AppIdle
  /\ CanvasIdle

ConvNext ==
  \/ handleSendMessage("hello")
  \/ \E index \in 1..MaxChatMessages : handleRegenerateResponse(index)
  \/ \E o \in Ops : OpChunk(o)
  \/ \E o \in Ops : OpEnd(o)
  \/ \E o \in Ops : OpThrow(o)
  \/ handleStopGenerating
  \/ \E id \in ConversationIds : handleDeleteConversation(id)

SpecConv == ConvInit /\ [][ConvNext]_vars

\* Streams running while conversations are selected.
RegenNext ==
  \/ handleSendMessage("hello")
  \/ \E index \in 1..MaxChatMessages : handleRegenerateResponse(index)
  \/ \E o \in Ops : OpChunk(o)
  \/ \E o \in Ops : OpEnd(o)
  \/ \E id \in ConversationIds : handleSelectConversation(id)

SpecRegen == ConvInit /\ [][RegenNext]_vars

\* The mode suggestion: first messages, the banner, and the conversation
\* changing under it.
ModeInit ==
  /\ settings \in {[DefaultSettings EXCEPT !.googleApiKey = "K"],
                   [DefaultSettings EXCEPT !.googleApiKey = "K",
                                           !.selectedTutorMode = "exam"]}
  /\ StreamCreated
  /\ QuizIdle
  /\ conversation = <<>>
  /\ FlowIdle
  /\ \/ NoConversations
     \/ OneConversation(<<>>)
  /\ AppIdle
  /\ CanvasIdle

ModeNext ==
  \/ \E content \in Contents : handleSendMessage(content)
  \/ \E o \in Ops : OpEnd(o)
  \/ \E id \in ConversationIds : handleSelectConversation(id)
  \/ handleSelectNote
  \/ handleNewConversation
  \/ handleAcceptModeSuggestion
  \/ AcceptTimerFires
  \/ handleDismissModeSuggestion

SpecMode == ModeInit /\ [][ModeNext]_vars

\* A quiz asked for while conversations are selected.
QuizConvInit ==
  /\ settings = [DefaultSettings EXCEPT !.googleApiKey = "K"]
  /\ StreamCreated
  /\ QuizIdle
  /\ conversation = <<>>
  /\ FlowIdle
  /\ TwoConversations
  /\ AppIdle
  /\ CanvasIdle

QuizConvNext ==
  \/ QuizStart
  \/ QuizResponse
  \/ \E id \in ConversationIds : handleSelectConversation(id)

SpecQuizConv == QuizConvInit /\ [][QuizConvNext]_vars

\* The stored flowcharts the view starts from: a chain or a triangle over
\* three nodes, and a second flowchart of two nodes.
CanvasNode(id) == [id |-> id, label |-> "label"]
CanvasEdge(s, t) == [source |-> s, target |-> t]
CanvasEdgeSets ==
  {<<CanvasEdge("a", "b"), CanvasEdge("b", "c")>>,
   <<CanvasEdge("a", "b"), CanvasEdge("a", "c"), CanvasEdge("b", "c")>>,
   <<CanvasEdge("a", "c")>>}
StoredFlowcharts ==
  {<<[id |-> "f1", nodes |-> <<CanvasNode("a"), CanvasNode("b"), CanvasNode("c")>>,
      edges |-> es],
     [id |-> "f2", nodes |-> <<CanvasNode("d"), CanvasNode("e")>>,
      edges |-> <<CanvasEdge("d", "e")>>]>> : es \in CanvasEdgeSets}
CanvasNodeIds == {"a", "b", "c", "d", "e"}

CanvasInit ==
  /\ settings = DefaultSettings
  /\ StreamCreated
  /\ QuizIdle
  /\ conversation = <<>>
  /\ FlowIdle
  /\ conversations = <<>>
  /\ currentConversationId = ""
  /\ activeView = "flowchart"
  /\ idsMade = 0
  /\ AppIdle
  /\ flowcharts \in StoredFlowcharts
  /\ currentFlowchartId = "f1"
  /\ selectedNodeId = ""
  /\ editingNodeId = ""

CanvasNext ==
  \/ \E id \in {"f1", "f2"} : handleSelectFlowchart(id)
  \/ \E nodeId \in CanvasNodeIds : handleNodeMouseDown(nodeId)
  \/ \E nodeId \in CanvasNodeIds : handleNodeDoubleClick(nodeId)
  \/ handleSaveEdit
  \/ handleDeleteNode
  \/ \E id \in {"f1", "f2"} : handleDeleteFlowchart(id)

SpecCanvas == CanvasInit /\ [][CanvasNext]_vars

(***************************************************************************)
(* Claims about the streaming adapters.                                    *)
(***************************************************************************)
IsPrefix(p, s) == Len(p) <= Len(s) /\ SubSeq(s, 1, Len(p)) = p

OnlyKinds(w, ks) == \A i \in 1..Len(w) : w[i].kind \in ks

CountKind(w, k) == Cardinality({i \in 1..Len(w) : w[i].kind = k})

WithoutKind(w, k) == SelectSeq(w, LAMBDA d : d.kind # k)

\* The delta texts of a wire of delta lines, one per line, in sending order.
DeltaSeq(w) == [i \in 1..Len(w) |-> w[i].text]

\* C1: for both wire formats, a body of N newline-terminated data lines with
\* valid JSON deltas yields fragments whose concatenation is the
\* concatenation of the N deltas in arrival order: while the stream runs the
\* fragments are the first deltas sent, one fragment per delta, and when it
\* ends none is missing.
C1_DeltasInOrder ==
  (respStatus = "ok" /\ OnlyKinds(wire, {"delta"})) =>
     /\ gpc # "threw"
     /\ IsPrefix(fragments, DeltaSeq(wire))
     /\ IsPrefix(Flatten(fragments), SentText(wire))
     /\ (gpc = "done" => Flatten(fragments) = SentText(wire))

C1_Witness ==
  /\ gpc = "done"
  /\ respStatus = "ok"
  /\ OnlyKinds(wire, {"delta"})
  /\ Len(wire) = MaxDeltas
  /\ Len(fragments) = MaxDeltas
  /\ adapter = "openai"

\* C2: one data line with malformed JSON inserted at any position among N
\* valid lines changes nothing: the generator does not throw and yields the
\* concatenation it yields without that line, in both parsing loops.
C2_MalformedLineSkipped ==
  (respStatus = "ok" /\ OnlyKinds(wire, {"delta", "malformed"})
     /\ CountKind(wire, "malformed") = 1) =>
     /\ gpc # "threw"
     /\ gerr = "none"
     /\ IsPrefix(Flatten(fragments), SentText(WithoutKind(wire, "malformed")))
     /\ (gpc = "done" => Flatten(fragments) = SentText(WithoutKind(wire, "malformed")))

C2_Witness ==
  /\ gpc = "done"
  /\ respStatus = "ok"
  /\ Len(wire) = MaxDeltas + 1
  /\ wire[2].kind = "malformed"
  /\ CountKind(wire, "delta") = MaxDeltas
  /\ Len(fragments) = MaxDeltas
  /\ adapter = "gemini"

\* The credential the selected vendor needs; none for an unknown vendor.
SelectedCredential(s) ==
  CASE s.selectedModel = "google" -> s.googleApiKey
    [] s.selectedModel = "zhipu" -> s.zhipuApiKey
    [] s.selectedModel \in {"mistral-small", "mistral-codestral"} -> s.mistralApiKey
    [] OTHER -> ""

\* C4: with the selected vendor's credential empty, or a selectedModel that
\* names no vendor, generateStreamingResponse fails with a configuration
\* error on its first pull and issues no network request.
C4_NoCredentialNoRequest ==
  SelectedCredential(settings) = "" =>
     /\ requests = <<>>
     /\ gpc \in {"created", "threw"}
     /\ (gpc = "threw" => gerr = "config")
     /\ fragments = <<>>

C4_Witness ==
  /\ gpc = "threw"
  /\ gerr = "config"
  /\ requests = <<>>
  /\ settings.selectedModel = "mistral-codestral"
  /\ settings.googleApiKey # ""

(***************************************************************************)
(* Claims about generateQuiz.                                              *)
(***************************************************************************)
Elements(xs) == {xs[i] : i \in 1..Len(xs)}

\* The questions of the object the response text parsed to.
ParsedQuestions ==
  IF qresp.hasText /\ CleanQuizText(qresp.text) = <<"JSON">> /\ qresp.obj.hasQuestions
  THEN qresp.obj.questions ELSE <<>>

\* C5: if any parsed question has an answer that is not one of its options,
\* generateQuiz fails and returns no StudySession.
C5_AnswerNotAmongOptionsFails ==
  (qpc \in {"done", "failed"}
     /\ \E i \in 1..Len(ParsedQuestions) :
          ParsedQuestions[i].answer \notin Elements(ParsedQuestions[i].options)) =>
     (qpc = "failed" /\ ~qsession.present)

\* C6: every question of a returned session keeps the source options in
\* order, and its correctAnswer is a zero-based index of the answer text in
\* them: options[correctAnswer] is the answer.
C6_CorrectAnswerIndexesAnswer ==
  qpc = "done" =>
     /\ Len(qsession.questions) = Len(ParsedQuestions)
     /\ \A i \in 1..Len(qsession.questions) :
          LET q == qsession.questions[i] IN
            /\ q.options = ParsedQuestions[i].options
            /\ q.correctAnswer \in 0..(Len(q.options) - 1)
            /\ q.options[q.correctAnswer + 1] = ParsedQuestions[i].answer

(***************************************************************************)
(* Claims about the flowchart validation (SpecValidate, SpecFlow).         *)
(***************************************************************************)
Validated == fpc = "done" /\ flowchart.via = "validated"

\* C7: every edge of a validated graph references ids that exist in the graph's
\* node set and has source # target, also when the input repeats an id and the
\* edges are the synthesized chain.
C7_EdgesReferenceNodesNoSelfLoop ==
  Validated =>
    \A i \in 1..Len(flowchart.edges) :
      LET e == flowchart.edges[i] IN
        /\ e.source \in NodeIds(flowchart.nodes)
        /\ e.target \in NodeIds(flowchart.nodes)
        /\ e.source # e.target

\* C8: a validated graph has at least one start node and at least one end node,
\* for any input node array of length >= 1.
C8_HasStartAndEnd ==
  (Validated /\ Len(fresp.data.nodes) >= 1) =>
    /\ \E i \in 1..Len(flowchart.nodes) : flowchart.nodes[i].type = "start"
    /\ \E i \in 1..Len(flowchart.nodes) : flowchart.nodes[i].type = "end"

InCanvas(n) == 100 <= n.x /\ n.x <= 800 /\ 50 <= n.y /\ n.y <= 800

\* C9: every node of every graph generateFlowchartFromConversation returns, from
\* the validated model output or from the fallback, for a conversation of any
\* length, has 100 <= x <= 800 and 50 <= y <= 800.
C9_EveryReturnedNodeInCanvas ==
  fpc = "done" => \A i \in 1..Len(flowchart.nodes) : InCanvas(flowchart.nodes[i])

\* C10: validation keeps the count and order of the nodes, sends a node at
\* (x, y) to (min(800, max(100, x)), min(800, max(50, y))), and places a node
\* without position at (450, 80 + 140 * index) before clamping.
C10_ClampKeepsCountAndOrder ==
  Validated =>
    /\ Len(flowchart.nodes) = Len(fresp.data.nodes)
    /\ \A i \in 1..Len(flowchart.nodes) :
         LET raw == fresp.data.nodes[i]
             x0 == IF raw.hasX THEN raw.x ELSE 450
             y0 == IF raw.hasY THEN raw.y ELSE 80 + 140 * (i - 1)
             n == flowchart.nodes[i]
         IN /\ raw.id # "" => n.id = raw.id
            /\ n.x = Min(800, Max(100, x0))
            /\ n.y = Min(800, Max(50, y0))

\* A validated graph whose first node came far outside the canvas and whose
\* second node came without a position.
C10_Witness ==
  /\ Validated
  /\ Len(fresp.data.nodes) = 2
  /\ fresp.data.nodes[1].hasX /\ fresp.data.nodes[1].x = -500
  /\ fresp.data.nodes[1].hasY /\ fresp.data.nodes[1].y = 10000
  /\ ~fresp.data.nodes[2].hasX /\ ~fresp.data.nodes[2].hasY
  /\ flowchart.nodes[1].x = 100 /\ flowchart.nodes[1].y = 800
  /\ flowchart.nodes[2].x = 450 /\ flowchart.nodes[2].y = 220

(***************************************************************************)
(* Claims about the chat handlers (SpecApp).                               *)
(***************************************************************************)
FirstChunks(k) == [i \in 1..k |-> i]

\* C3: when the stop request was issued after exactly k fragments had been
\* accepted by the loop of handleSendMessage / handleRegenerateResponse, the
\* accumulated response text is the concatenation of the first k fragments:
\* fragment k+1 and later ones are never appended.
C3_StopKeepsFirstKFragments ==
  \A o \in Ops :
    ops[o].stoppedAt >= 0 => ops[o].fullResponse = FirstChunks(ops[o].stoppedAt)

(***************************************************************************)
(* Claims about the flowchart pipeline (SpecFlow, SpecValidate).           *)
(***************************************************************************)
\* The response is one of the failures the pipeline recovers from.
FlowFailure ==
  \/ fresp.threw
  \/ ~FlowParses(fresp.text)
  \/ ~fresp.data.hasNodes
  \/ Len(fresp.data.nodes) = 0

\* C11: for a conversation of at least 2 messages the call never raises, and a
\* failure of the stream, a text that is not valid JSON, a parsed value of
\* null, and nodes missing or empty each return the graph built by
\* createFallbackFlowchart.
C11_FailuresEndInFallback ==
  /\ Len(conversation) >= 2 => (fpc # "failed" /\ ferr = "none")
  /\ fpc = "done" => flowchart.via \in {"validated", "fallback"}
  /\ (fpc = "done" /\ FlowFailure) =>
        /\ flowchart.via = "fallback"
        /\ flowchart = createFallbackFlowchart(conversation)
        /\ Len(flowchart.nodes) = Min(8, Len(conversation)) + 2

\* A text that parses to null was answered for a conversation of 3 messages.
C11_Witness ==
  /\ fpc = "done"
  /\ Len(conversation) = 3
  /\ ~fresp.threw
  /\ fresp.text = <<"~~~json", "null", "~~~">>
  /\ flowchart.via = "fallback"
  /\ Len(flowchart.nodes) = 5

\* The edges of the raw object (none when `edges` is not an array).
InputEdges == IF fresp.data.hasEdges THEN fresp.data.edges ELSE <<>>

\* The y of the node that carries id (the last one when the id is repeated).
YOfId(ns, id) ==
  LET at == {i \in 1..Len(ns) : ns[i].id = id} IN
    ns[CHOOSE i \in at : \A j \in at : j <= i].y

\* e joins two different ids of the graph.
JoinsNodes(e, ns) ==
  /\ e.source \in NodeIds(ns)
  /\ e.target \in NodeIds(ns)
  /\ e.source # e.target

\* e joins two different ids of the graph and does not point upwards.
JoinsDownwards(e, ns) == JoinsNodes(e, ns) /\ YOfId(ns, e.target) >= YOfId(ns, e.source)

\* The raw object had more than one node and no edge passed the filter.
NoEdgeLeft ==
  /\ Validated
  /\ Len(flowchart.nodes) > 1
  /\ \A i \in 1..Len(InputEdges) : ~JoinsDownwards(InputEdges[i], flowchart.nodes)

\* The place of node i when the nodes are listed by ascending y, nodes of
\* equal y in array order.
RankByY(ns, i) ==
  1 + Cardinality({j \in 1..Len(ns) : ns[j].y < ns[i].y \/ (ns[j].y = ns[i].y /\ j < i)})

\* C12 as stated: with n > 1 nodes and zero edges left, the output has exactly
\* n - 1 edges and the i-th goes from the i-th node of the array to the
\* (i+1)-th.
C12_ChainInArrayOrder ==
  NoEdgeLeft =>
    /\ Len(flowchart.edges) = Len(flowchart.nodes) - 1
    /\ \A i \in 1..Len(flowchart.edges) :
         /\ flowchart.edges[i].source = flowchart.nodes[i].id
         /\ flowchart.edges[i].target = flowchart.nodes[i + 1].id

\* C12 amended: with n > 1 nodes and zero edges left, the output has exactly
\* n - 1 edges and the i-th goes from the i-th node to the (i+1)-th in the
\* order of ascending y (equal y: array order).
C12_ChainInYOrder ==
  NoEdgeLeft =>
    /\ Len(flowchart.edges) = Len(flowchart.nodes) - 1
    /\ \A i \in 1..Len(flowchart.nodes) : \A j \in 1..Len(flowchart.nodes) :
         RankByY(flowchart.nodes, j) = RankByY(flowchart.nodes, i) + 1 =>
           LET e == flowchart.edges[RankByY(flowchart.nodes, i)] IN
             e.source = flowchart.nodes[i].id /\ e.target = flowchart.nodes[j].id

\* Two nodes, the first placed below the second, and no edges: the chain
\* runs from the second node to the first.
C12_Witness ==
  /\ NoEdgeLeft
  /\ Len(flowchart.nodes) = 2
  /\ flowchart.nodes[1].y > flowchart.nodes[2].y
  /\ flowchart.nodes[1].id # flowchart.nodes[2].id
  /\ flowchart.edges = <<[source |-> flowchart.nodes[2].id, target |-> flowchart.nodes[1].id]>>

\* C13: in every returned graph, validated or fallback, the node ids are
\* pairwise distinct, whatever ids the raw object supplied.
C13_NodeIdsDistinct ==
  fpc = "done" =>
    \A i \in 1..Len(flowchart.nodes) : \A j \in 1..Len(flowchart.nodes) :
      i # j => flowchart.nodes[i].id # flowchart.nodes[j].id

\* C14 as stated: every input edge whose source and target are different ids
\* of existing nodes is in the output, whatever the positions of its endpoints.
C14_OnlyUnknownOrSelfLoopDropped ==
  Validated =>
    \A i \in 1..Len(InputEdges) :
      JoinsNodes(InputEdges[i], flowchart.nodes) =>
        \E k \in 1..Len(flowchart.edges) : flowchart.edges[k] = InputEdges[i]

\* C14 amended: the filter keeps, in input order, exactly the input edges
\* that join two different existing ids and whose target is not above its
\* source (target y >= source y); edges pointing upwards are dropped too.
C14_UpwardEdgesDroppedToo ==
  (Validated /\ ~NoEdgeLeft /\ Len(flowchart.nodes) > 1) =>
    flowchart.edges = SelectSeq(InputEdges, LAMBDA e : JoinsDownwards(e, flowchart.nodes))

\* An edge a -> b and an edge b -> a came in, with a above b: only a -> b is kept.
C14_Witness ==
  /\ Validated
  /\ Len(flowchart.nodes) = 2
  /\ flowchart.nodes[1].id = "a" /\ flowchart.nodes[2].id = "b"
  /\ flowchart.nodes[1].y < flowchart.nodes[2].y
  /\ InputEdges = <<[source |-> "b", target |-> "a"], [source |-> "a", target |-> "b"]>>
  /\ flowchart.edges = <<[source |-> "a", target |-> "b"]>>

(***************************************************************************)
(* Claims about the quiz handler (SpecQuiz).                               *)
(***************************************************************************)
\* The response carried a text that is not valid JSON after the fences are
\* stripped, or whose object has no `questions` array.
BadQuizText ==
  /\ qresp.ok
  /\ qresp.hasText
  /\ CleanQuizText(qresp.text) # <<"JSON">> \/ ~qresp.obj.hasQuestions

\* C15: the quiz pipeline has no fallback: on a text that is not valid JSON
\* after fence stripping, or an object without a `questions` array,
\* generateQuiz fails and returns no StudySession, and handleGenerateQuiz
\* leaves studySession and the modal as they were and resets isQuizLoading.
C15_QuizHasNoFallback ==
  [][(qpc = "fetching" /\ qpc' # "fetching" /\ BadQuizText') =>
       /\ qpc' = "failed"
       /\ qerr' = "extract"
       /\ ~qsession'.present
       /\ studySession' = studySession
       /\ isQuizModalOpen' = isQuizModalOpen
       /\ isQuizLoading /\ ~isQuizLoading']_vars

\* An object without a `questions` array was answered while an earlier
\* session was held: the call failed and the earlier session is still there.
C15_Witness ==
  /\ qpc = "failed"
  /\ qerr = "extract"
  /\ qresp.ok /\ qresp.hasText
  /\ CleanQuizText(qresp.text) = <<"JSON">>
  /\ ~qresp.obj.hasQuestions
  /\ studySession = EarlierSession
  /\ ~isQuizModalOpen
  /\ ~isQuizLoading

(***************************************************************************)
(* Claims about settings updates during a stream (SpecUpdate).             *)
(***************************************************************************)
\* The request of a started stream is the one request of one vendor, and the
\* loop that parses the answer is that vendor's.
StreamUsesItsRequest ==
  requests # <<>> =>
    /\ Len(requests) = 1
    /\ adapter = VendorFormat(requests[1].url)
    /\ (respStatus = "ok" /\ OnlyKinds(wire, {"delta"})) =>
          /\ IsPrefix(fragments, DeltaSeq(wire))
          /\ (gpc = "done" => fragments = DeltaSeq(wire))

\* C16: updateSettings during a stream in flight never changes the vendor,
\* endpoint, credential, model or persona prompt that stream uses: after the
\* first pull the request stays what it was and the answer is parsed in the
\* format of the vendor it was sent to; new settings serve later calls only.
C16_UpdateLeavesStreamAlone ==
  /\ []StreamUsesItsRequest
  /\ [][gpc # "created" => (requests' = requests /\ adapter' = adapter)]_vars

\* A stream sent to Google with key K and the standard persona ran to its end
\* although the settings were changed to another vendor on the way.
C16_Witness ==
  /\ gpc = "done"
  /\ requests = <<[url |-> GoogleUrl, key |-> "K", model |-> "gemma-3-27b-it",
                   prompt |-> "standard"]>>
  /\ settings.selectedModel = "mistral-small"
  /\ OnlyKinds(wire, {"delta"})
  /\ Len(fragments) = MaxDeltas

(***************************************************************************)
(* Claims about the scope of the cancellation token (SpecApp).             *)
(***************************************************************************)
\* C17: the cancellation token is scoped to one operation: in every
\* interleaving of send, regenerate and stop, an operation that is still
\* streaming has a token (the completion of another operation does not take
\* it away), and once a stop was issued while it streamed, the token it
\* checks at its next fragment is aborted, so it leaves its loop there.
C17_TokenScopedToOperation ==
  \A o \in Ops :
    ops[o].pc = "streaming" =>
      /\ abortControllerRef.set
      /\ ops[o].stoppedAt >= 0 => RefAborted

(***************************************************************************)
(* Claims about the end of a stream (SpecStream).                          *)
(***************************************************************************)
\* The lines sent before the [DONE] line of a body that has one.
BeforeDone(w) ==
  SubSeq(w, 1, (CHOOSE i \in 1..Len(w) : w[i].kind = "done") - 1)

HasDoneLine == respStatus = "ok" /\ CountKind(wire, "done") = 1

\* C18: in the OpenAI-compatible loop a `data: [DONE]` line ends the stream
\* normally and no delta of a later line is ever yielded, in the same read or
\* a later one; in the Gemini loop the stream ends only when the body has
\* ended, and a [DONE] line ends nothing.
C18_DoneEndsOpenAIStreamOnly ==
  /\ (HasDoneLine /\ adapter = "openai") =>
        /\ gpc # "threw"
        /\ IsPrefix(fragments, DeltaSeq(BeforeDone(wire)))
        /\ (gpc = "done" => fragments = DeltaSeq(BeforeDone(wire)))
  /\ (adapter = "gemini" /\ gpc = "done") =>
        /\ body = <<>>
        /\ HasDoneLine => fragments = DeltaSeq(WithoutKind(wire, "done"))

\* An OpenAI-compatible body with [DONE] between two deltas ended after the
\* first delta, with the line of the second delta still unread.
C18_Witness ==
  /\ adapter = "openai"
  /\ gpc = "done"
  /\ HasDoneLine
  /\ Len(wire) = 3
  /\ wire[2].kind = "done"
  /\ fragments = <<wire[1].text>>
  /\ body # <<>>

C20_TransportFailureAtRead ==
  /\ [][(gpc = "reading" /\ transport = "broken") =>
          (gpc' = "threw" /\ gerr' = "transport" /\ fragments' = fragments)]_vars
  /\ [][gpc = "threw" => (gpc' = "threw" /\ fragments' = fragments)]_vars
  /\ []((gerr = "transport" /\ OnlyKinds(wire, {"delta"})) =>
          (gpc = "threw" /\ IsPrefix(fragments, DeltaSeq(wire))))

\* The read after the first of two deltas failed: one fragment was received.
C20_Witness ==
  /\ gpc = "threw"
  /\ gerr = "transport"
  /\ OnlyKinds(wire, {"delta"})
  /\ Len(wire) = 2
  /\ fragments = <<wire[1].text>>
  /\ body # <<>>

(***************************************************************************)
(* Claims about the fallback graph (SpecFlow).                             *)
(***************************************************************************)
\* The edges that join node i to node i + 1, for every i.
IsChainOver(edges, nodes) ==
  /\ Len(edges) = Len(nodes) - 1
  /\ \A i \in 1..Len(edges) :
        /\ edges[i].source = nodes[i].id
        /\ edges[i].target = nodes[i + 1].id
  /\ \A i, j \in 1..Len(nodes) : nodes[i].id = nodes[j].id => i = j

RoleType(role) == IF role = "user" THEN "topic" ELSE "concept"

RECURSIVE YieldsOf(_, _)
YieldsOf(ad, ls) ==
  LET r == RunLines(ad, ls) IN
    IF r.ev = "yield" THEN <<r.text>> \o YieldsOf(ad, r.rest) ELSE <<>>

\* The fragments of the body of w when it arrives in one read.
InOneRead(w, ad) ==
  LET text == DecodeStream(<<>>, Utf8Encode(BodyText(w, ad))).chars
      pieces == SplitLines(text)
  IN  YieldsOf(ad, SubSeq(pieces, 1, Len(pieces) - 1))

\* C23: however the bytes of a body of newline-terminated lines are split
\* into reads, also in the middle of a line or of a character, the fragments
\* yielded are those of the body arriving in one read, in the same order.
C23_ReadsDoNotMatter ==
  respStatus = "ok" =>
     /\ IsPrefix(fragments, InOneRead(wire, adapter))
     /\ (gpc = "done" => fragments = InOneRead(wire, adapter))

\* A read ended between the two bytes of a character in the middle of the
\* second data line, after the first delta was yielded.
C23_Witness ==
  /\ gpc = "reading"
  /\ respStatus = "ok"
  /\ OnlyKinds(wire, {"delta"})
  /\ Len(wire) = 2
  /\ pending = <<"E1">>
  /\ StartsWith(buffer, DataPrefix)
  /\ body # <<>>
  /\ fragments = <<DeltaText(1)>>

(***************************************************************************)
(* Claims about the flowchart view (SpecCanvas).                           *)
(***************************************************************************)
\* The stored flowchart with this id, as a set (empty when there is none).
StoredWithId(fs, id) == {fs[i] : i \in {j \in 1..Len(fs) : fs[j].id = id}}

\* C24: when handleDeleteNode has run on the selected node of the flowchart
\* shown (the only handler that clears the selection), the stored flowchart
\* has neither that node nor an edge from or to it.
C24_DeletedNodeIsGone ==
  [][(HasCurrentFlowchart /\ selectedNodeId # "" /\ selectedNodeId' = "") =>
       \A fc \in StoredWithId(flowcharts', currentFlowchartId) :
          /\ \A i \in 1..Len(fc.nodes) : fc.nodes[i].id # selectedNodeId
          /\ \A i \in 1..Len(fc.edges) :
                fc.edges[i].source # selectedNodeId /\ fc.edges[i].target # selectedNodeId]_vars

IsFirstMessage ==
  \/ activeView # "chat"
  \/ ~HasConversation(conversations, currentConversationId)
  \/ Len(FindConversation(conversations, currentConversationId).messages) = 0

\* C26: when the first message of a conversation makes shouldSuggestMode
\* true, the send leaves the suggestion of the detected mode on show, whether
\* the conversation existed empty or is created by the send, and a suggestion
\* on show goes away only by accepting it, dismissing it or a change of the
\* selected conversation.
C26_SuggestionStaysOnShow ==
  [][/\ \A content \in Contents :
          (/\ handleSendMessage(content)
           /\ IsFirstMessage
           /\ shouldSuggestMode(detectBestMode(content), settings.selectedTutorMode))
          => /\ modeSuggestion'.show
             /\ modeSuggestion'.mode = detectBestMode(content).suggestedMode
     /\ (modeSuggestion.show /\ ~modeSuggestion'.show)
          => \/ handleAcceptModeSuggestion
             \/ handleDismissModeSuggestion
             \/ currentConversationId' # currentConversationId]_vars

(***************************************************************************)
(* Claims about the quiz of a conversation (SpecQuizConv).                 *)
(***************************************************************************)
\* C25: whenever the quiz modal is open, the study session on show was made
\* from the selected conversation: a quiz that completes after the user went
\* to another conversation does not open the modal with the old quiz.
C25_ModalShowsCurrentConversation ==
  isQuizModalOpen => /\ studySession.present
                     /\ studySession.conversationId = currentConversationId

(***************************************************************************)
(* Claims about streams and the list of conversations (SpecConv,           *)
(* SpecRegen).                                                             *)
(***************************************************************************)
IdsOf(convs) == {convs[i].id : i \in 1..Len(convs)}

\* The step in which the call o of a handler finishes: by the end of its
\* stream, by an exception, or by the stop seen at a chunk.
Completes(o) == ops[o].pc = "streaming" /\ ops'[o].pc = "idle"

\* C27: the completion of a stream never puts back a conversation deleted
\* while the stream was in flight: the step that finishes a send or a
\* regenerate, with success, error or stop, leaves the set of conversation
\* ids as it was, and leaves the list untouched when the conversation of the
\* call is gone.
C27_CompletionAddsNoConversation ==
  [][\A o \in Ops :
       Completes(o)
         => /\ IdsOf(conversations') = IdsOf(conversations)
            /\ ~HasConversation(conversations, ops[o].conv)
                 => conversations' = conversations]_vars

\* A send is streaming, has received a chunk, and its conversation has been
\* deleted.
C27_Witness ==
  /\ ops["send"].pc = "streaming"
  /\ ops["send"].fullResponse # <<>>
  /\ ~HasConversation(conversations, ops["send"].conv)

\* The conversations other than id are the same, at the same places.
OthersUnchanged(id) ==
  /\ Len(conversations') = Len(conversations)
  /\ \A i \in 1..Len(conversations) :
        conversations[i].id # id => conversations'[i] = conversations[i]

MessagesOf(convs, o) == FindConversation(convs, ops[o].conv).messages

\* C29: when the stream of a send fails after fragments were received, the
\* conversation gets exactly one new assistant message, the error text, and
\* not the partial text, if no stop was requested; if a stop was requested
\* before the failure it gets no message at all.  The messages it had,
\* the user's message among them, stay.
C29_FailedSendStoresErrorUnlessStopped ==
  [][(/\ OpThrow("send")
      /\ ops["send"].fullResponse # <<>>
      /\ HasConversation(conversations, ops["send"].conv))
       => IF ops["send"].stoppedAt = -1
          THEN MessagesOf(conversations', "send")
                 = Append(MessagesOf(conversations, "send"), ErrorMessage)
          ELSE MessagesOf(conversations', "send") = MessagesOf(conversations, "send")]_vars

\* isChatLoading false, streamingMessage null, the token null.
ChatReset ==
  /\ isChatLoading = FALSE
  /\ streamingMessage = NoMessage
  /\ abortControllerRef = NullRef

\* C30: a stop request takes effect when the adapter delivers its next
\* fragment or ends: at that step the call that was streaming when the stop
\* was requested finishes, stores one assistant message with the text
\* accumulated before the stop, and resets isChatLoading, streamingMessage and
\* the token.
C30_StopTakesEffectAtNextFragment ==
  [][\A o \in Ops :
       (/\ ops[o].pc = "streaming"
        /\ ops[o].stoppedAt >= 0
        /\ OpChunk(o) \/ OpEnd(o))
         => /\ Completes(o)
            /\ LET stored == AssistantMessage(FirstChunks(ops[o].stoppedAt))
                   before == IF o = "send" THEN MessagesOf(conversations, o)
                             ELSE ops[o].history IN
                 MessagesOf(conversations', o) = Append(before, stored)
            /\ ChatReset']_vars

====
